---- MODULE Spec2Model ----
(***************************************************************************)
(* GuffLabs: model registry (core/loader), model entities (core/model)     *)
(* and the generation orchestrator (core/inference), as state machines.    *)
(*                                                                         *)
(* Strings that the code computes on (paths, model ids) are sequences of   *)
(* character codes.  Timestamps are readings of a clock `now`.  The        *)
(* adapter is an external collaborator: every adapter call is a            *)
(* suspension point that later resolves or rejects.                        *)
(***************************************************************************)
EXTENDS Integers, Sequences, FiniteSets, Bags, TLC

----------------------------------------------------------------------------
(* Bounds of the model *)

\* number of generate / streamGenerate calls in flight at one time
MaxCalls == 2
\* loadModel invocations in flight at once
MaxLoads == 2
\* models constructed in one run
MaxModels == 2
\* largest clock reading
MaxTime == 1
\* tokens an adapter produces in one inference call
MaxOut == 2
\* half-width of the window of context sizes around the headroom
CtxMargin == 6
\* half-width of the window of prompt lengths around the context size
PromptMargin == 12
\* largest of the context sizes far below the headroom
TinyContext == 3
\* subscriptions to a token stream in one run
MaxSubscribers == 2
\* tokens written to a token stream in one run
MaxWritten == 3
\* tokens of one writeMany call
MaxBatch == 2
\* a buffer size small enough for the buffer to fill
TinyBuffer == 2
\* length of the short paths given to createModelId
MaxPathLen == 4
\* largest of the small context sizes of a ModelContext
MaxContextSize == 4
\* tokens of one addTokens call
MaxAdd == 2
\* tokens a ModelContext holds before an addTokens call
MaxHeld == 4
\* tokens written to the stream whose consumers call back, by its users
MaxLive == 2
\* tokens the engine yields to the Node adapter, and the largest maxTokens
MaxEngine == 3
MaxPredict == 3
\* the longest of the short arrays given to createTokenStream
MaxStreamed == 5
\* allocations made of a MemoryManager, and the largest size
MaxAllocations == 3
MaxSize == 1
\* the largest pool, and the allocations made from a pool
MaxPool == 3
MaxPoolAllocations == 4

----------------------------------------------------------------------------
(* Program constants *)

\* model.js: ModelContext contextSize default / inference: `|| 2048`
DefaultContextSize == 2048
\* inference: slice(-contextSize + 100)
Headroom == 100
\* inference: getRemainingSpace() - 10
SafetyMargin == 10
\* model.js: GenerationOptions maxTokens = 100
DefaultMaxTokens == 100
\* options.bufferSize || 1024 of TokenStream
DefaultBufferSize == 1024

----------------------------------------------------------------------------
(* Generic helpers *)

Min(a, b) == IF a <= b THEN a ELSE b
Max(a, b) == IF a >= b THEN a ELSE b

\* Array.prototype.slice(start) of JavaScript, for any integer start
JsSlice(s, start) ==
  LET n == Len(s)
      from == IF start < 0 THEN Max(n + start, 0) ELSE Min(start, n)
  IN  SubSeq(s, from + 1, n)

\* String.prototype.substring(0, k)
JsPrefix(s, k) == SubSeq(s, 1, Min(k, Len(s)))

\* the array 1..n standing for a tokenize result of n distinct positions
Iota(n) == [i \in 1..n |-> i]

----------------------------------------------------------------------------
(* core/model: createModelId *)

ChSlash == 47
ChDot == 46
ChDash == 45

\* index of the last occurrence of ch in s, 0 when there is none
RECURSIVE LastIndexOf(_, _, _)
LastIndexOf(s, ch, i) ==
  IF i = 0 THEN 0
  ELSE IF s[i] = ch THEN i ELSE LastIndexOf(s, ch, i - 1)

\* index of the first occurrence of ch in s at or after i, Len(s)+1 when none
RECURSIVE FirstIndexOf(_, _, _)
FirstIndexOf(s, ch, i) ==
  IF i > Len(s) THEN Len(s) + 1
  ELSE IF s[i] = ch THEN i ELSE FirstIndexOf(s, ch, i + 1)

\* path.split('/').pop()
LastSegment(path) == SubSeq(path, LastIndexOf(path, ChSlash, Len(path)) + 1, Len(path))

\* x.split('.')[0]
FirstPiece(x) == SubSeq(x, 1, FirstIndexOf(x, ChDot, 1) - 1)

MinInt32 == -2147483647 - 1

\* x reduced to a signed 16-bit value
Wrap16(x) == ((x + 32768) % 65536) - 32768

\* hash = ((hash << 5) - hash) + c; hash = hash & hash  (32-bit signed wrap),
\* computed on 16-bit halves so no intermediate value leaves 32 bits
HashStep(h, c) ==
  LET lo == h % 65536
      hi == (h - lo) \div 65536
      t  == lo * 31 + c
      hi2 == Wrap16(hi * 31 + (t \div 65536))
  IN  hi2 * 65536 + (t % 65536)

RECURSIVE PathHash(_, _, _)
PathHash(path, i, h) ==
  IF i > Len(path) THEN h ELSE PathHash(path, i + 1, HashStep(h, path[i]))

HexDigit(d) == IF d < 10 THEN 48 + d ELSE 87 + d

\* Number.prototype.toString(16) of a non-negative integer below 2^31
RECURSIVE ToHex(_)
ToHex(n) ==
  IF n < 16 THEN <<HexDigit(n)>> ELSE Append(ToHex(n \div 16), HexDigit(n % 16))

\* Math.abs(hash).toString(16)
AbsHex(h) ==
  IF h = MinInt32 THEN <<56, 48, 48, 48, 48, 48, 48, 48>>
  ELSE ToHex(IF h < 0 THEN -h ELSE h)

createModelId(path) ==
  FirstPiece(LastSegment(path)) \o <<ChDash>> \o JsPrefix(AbsHex(PathHash(path, 1, 0)), 8)

----------------------------------------------------------------------------
(* Inputs *)

\* "./m.gguf"
PathA == <<46, 47, 109, 46, 103, 103, 117, 102>>
\* "d/n.gguf"
PathB == <<100, 47, 110, 46, 103, 103, 117, 102>>
Paths == {PathA, PathB}

IdA == createModelId(PathA)
IdB == createModelId(PathB)
ModelIds == {IdA, IdB}


NoEntity == 0
Entities == 1..2

\* values of the opaque session handle
NullSession == "null"
LiveSession == "live"
\* values of the opaque tokenizer handle
NullTokenizer == "null"
LiveTokenizer == "live"

\* messages of the failures that enter the orchestrator from outside
AdapterMsg == "adapter failure"
CallbackMsg == "callback failure"

\* detokenizeToken(model, t) / one token's share of detokenize(model, tokens)
TokenText(t) == <<"text", t>>
\* adapter.detokenize(model, tokens): token-wise, the empty array gives ""
Detokenize(tokens) == [i \in 1..Len(tokens) |-> TokenText(tokens[i])]
EmptyText == <<>>

----------------------------------------------------------------------------
(* State *)

VARIABLES
  now,               \* Date.now()
  models,            \* the GGUFModel objects: session, isLoaded, lastUsed, ...
  loadedModels,      \* loader: Map id -> GGUFModel (NoEntity: no entry)
  cancellationFlags, \* inference: Map id -> boolean ("unset": no entry)
  calls,             \* the generate / streamGenerate invocations in flight (a bag)
  returned,          \* the invocation that settled last, as its caller sees it
                     \* until the next call is made
  cancelReturned,    \* what the cancelGeneration call made last did, until a
                     \* generate / streamGenerate call is made or settles
  loads,             \* the loadModel invocations in flight (a bag)
  loadReturned,      \* the loadModel invocation that settled last
  resident,          \* per id, the models that completed loads of the id have
                     \* returned since the id was last unloaded or cleared
  answered,          \* what the unloadModel, getModel or clearModels call made
                     \* last answered; a loadModel call that settles takes
                     \* its place
  tokenStream,       \* a TokenStream, with what its subscribers have been told
  modelContext,      \* a ModelContext: tokens and contextSize
  createdId,         \* the createModelId call made last: its path and result
  liveStream,        \* a TokenStream whose consumers call write or end
  adapterRun,        \* the Node adapter's runInference or runInferenceStreaming
                     \* call made last
  collector,         \* createTokenStream and collectStream on tokenStream
  memory,            \* a MemoryManager
  pool               \* a pool made by createMemoryPool

vars == <<now, models, loadedModels, cancellationFlags, calls, returned,
          cancelReturned,
          loads, loadReturned, resident, answered, tokenStream,
          modelContext, createdId,
          liveStream, adapterRun, collector, memory, pool>>

\* the state of the callers of core/model
modelVars == <<modelContext, createdId>>

\* the state of the callers of utils/streaming, utils/memory and of the
\* Node adapter
utilVars == <<liveStream, adapterRun, collector, memory, pool>>

\* the state of the loader's callers
loaderVars == <<loads, loadReturned, resident, answered>>
\* the state of the orchestrator
inferenceVars == <<cancellationFlags, calls, returned, cancelReturned>>

\* no call
NoCall ==
  [kind |-> "none", model |-> NoEntity, pc |-> "idle",
   options |-> <<>>, requested |-> 0, promptLength |-> 0,
   context |-> <<>>, contextSize |-> 0, maxTokens |-> 0,
   invoked |-> <<>>, invokedUnloaded |-> FALSE,
   output |-> <<>>, failed |-> "none",
   awaitsCallback |-> FALSE, emitted |-> 0, pending |-> {}, dropped |-> {}, notified |-> <<>>,
   status |-> "none", value |-> <<>>, message |-> <<>>,
   cancelledAtEntry |-> FALSE, cancelledAtSettle |-> FALSE,
   cancelledInFlight |-> FALSE, usedBefore |-> 0, usedAfter |-> 0]

\* no loadModel call
NoLoad ==
  [path |-> <<>>, useCache |-> FALSE, modelId |-> <<>>, id |-> <<>>,
   model |-> NoEntity, pc |-> "idle", status |-> "none", message |-> <<>>,
   initialized |-> FALSE, prior |-> {}]

\* no unloadModel, getModel, listModels or clearModels call; freed counts
\* the adapter.freeModel invocations of the call, list is the array
\* listModels returned and listed the entities its records were made from
NoAnswer ==
  [op |-> "none", id |-> <<>>, outcome |-> "none", model |-> NoEntity,
   freed |-> 0, list |-> <<>>, listed |-> <<>>]

\* no cancelGeneration call
NoCancel == [arg |-> <<>>, outcome |-> "none"]

\* the calls in flight
InFlight == BagToSet(calls)

\* one call moves on
Replace(r, q) == (calls (-) SetToBag({r})) (+) SetToBag({q})

\* the id the call's closure reads: model.id
CallModelId(r) == models[r.model].id

----------------------------------------------------------------------------
(* Map, as the loader uses it: entries <<key, value>> in insertion order *)

MapKeys(m) == {m[i][1] : i \in DOMAIN m}
MapHas(m, k) == k \in MapKeys(m)
MapGet(m, k) == m[CHOOSE i \in DOMAIN m : m[i][1] = k][2]
\* set keeps the position of a key that is present
MapSet(m, k, v) ==
  IF MapHas(m, k) THEN [i \in DOMAIN m |-> IF m[i][1] = k THEN <<k, v>> ELSE m[i]]
  ELSE Append(m, <<k, v>>)
MapDeleteNothing(m, k) == m
MapDelete(m, k) == SelectSeq(m, LAMBDA x : x[1] # k)

----------------------------------------------------------------------------
(* core/model *)

\* metadata are the entries <<key, value>> the caller of loadModel gave under
\* keys that getInfo also sets itself; NoMetadata: none of these keys
NoMetadata == <<>>

\* GGUFModel.getInfo: the fields of the model, then the metadata spread over
\* them
getInfo(m) ==
  LET fields == [id |-> m.id, path |-> m.path, isLoaded |-> m.isLoaded,
                 lastUsed |-> m.lastUsed]
  IN [k \in DOMAIN fields \cup MapKeys(m.metadata) |->
        IF MapHas(m.metadata, k) THEN MapGet(m.metadata, k) ELSE fields[k]]

\* GGUFModel.updateLastUsed
updateLastUsedNever(ms, e) == ms
updateLastUsed(ms, e) == [ms EXCEPT ![e].lastUsed = now]

\* GGUFModel.unload
unload(ms, e) == [ms EXCEPT ![e].session = NullSession, ![e].isLoaded = FALSE]

\* ModelContext.getContextLength
getContextLength(tokens) == Len(tokens)

\* ModelContext.getRemainingSpace
getRemainingSpace(tokens, contextSize) == contextSize - Len(tokens)

\* new GenerationOptions(options).maxTokens: <<>> is options without maxTokens
NormalizedMaxTokens(options) ==
  IF options = <<>> THEN DefaultMaxTokens ELSE options[1]

\* new ModelContext({tokens, contextSize})
ModelContext(tokens, contextSize) ==
  [tokens |-> tokens, contextSize |-> contextSize]

\* ModelContext.addTokens(tokens)
addTokensTo(c, tokens) ==
  LET all == c.tokens \o tokens
  IN [c EXCEPT !.tokens = IF Len(all) > c.contextSize
                          THEN JsSlice(all, -c.contextSize) ELSE all]

\* the token ids the callers add
TokenIds == {1, 2}
\* the arrays of at most n of them
Chunks(n) == UNION {[1..k -> TokenIds] : k \in 0..n}

addTokens(tokens) ==
  /\ Len(modelContext.tokens) <= MaxHeld
  /\ modelContext' = addTokensTo(modelContext, tokens)
  /\ UNCHANGED <<now, models, loadedModels, inferenceVars, loaderVars,
                 tokenStream, createdId, utilVars>>

\* no createModelId call
NoCreatedId == [called |-> FALSE, path |-> <<>>, id |-> <<>>]

\* a call of createModelId(path) by a user of the module
createModelIdCall(path) ==
  /\ createdId' = [called |-> TRUE, path |-> path, id |-> createModelId(path)]
  /\ UNCHANGED <<now, models, loadedModels, inferenceVars, loaderVars,
                 tokenStream, modelContext, utilVars>>

\* no call of core/model has been made by the callers that are modelled
NoModelCalls ==
  /\ modelContext = ModelContext(<<>>, DefaultContextSize)
  /\ createdId = NoCreatedId

----------------------------------------------------------------------------
(* core/inference: the steps shared by generate and streamGenerate *)

\* `!model || !model.isLoaded || !model.session` is false
ModelReadyIgnoresSession(e) == e # NoEntity /\ models[e].isLoaded
ModelReady(e) ==
  e # NoEntity /\ models[e].isLoaded /\ models[e].session # NullSession

\* model.metadata.contextSize || 2048   (0 stands for absent or falsy)
EffectiveContextSize(e) ==
  IF models[e].contextSize = 0 THEN DefaultContextSize ELSE models[e].contextSize

\* if (getContextLength() >= contextSize) tokens = tokens.slice(-contextSize + 100)
TruncateKeepsFirst(tokens, contextSize) ==
  IF getContextLength(tokens) >= contextSize
  THEN SubSeq(tokens, 1, Max(0, Min(Len(tokens), contextSize - Headroom)))
  ELSE tokens
TruncateContext(tokens, contextSize) ==
  IF getContextLength(tokens) >= contextSize
  THEN JsSlice(tokens, -contextSize + Headroom)
  ELSE tokens

\* Math.min(generationOptions.maxTokens, context.getRemainingSpace() - 10)
MaxNewTokensNoMargin(requested, tokens, contextSize) ==
  Min(requested, getRemainingSpace(tokens, contextSize))
MaxNewTokens(requested, tokens, contextSize) ==
  Min(requested, getRemainingSpace(tokens, contextSize) - SafetyMargin)

\* () => cancellationFlags.get(model.id), as a JavaScript truth value
IsCancelled(r) == cancellationFlags[CallModelId(r)] = "true"

\* cancellationFlags.set(model.id, false) at the start of a call
FlagsAtEntryAll(flags, id) == [i \in DOMAIN flags |-> "false"]
FlagsAtEntryKept(flags, id) == flags
FlagsAtEntry(flags, id) == [flags EXCEPT ![id] = "false"]

\* a call that throws before its try block
Refused(kind, e, msg) ==
  [NoCall EXCEPT !.kind = kind, !.model = e, !.pc = "done",
                 !.status = "rejected", !.message = <<msg>>]

\* a call that passed the checks and awaits adapter.tokenize
Entered(kind, e, options, awaits) ==
  [NoCall EXCEPT !.kind = kind, !.model = e, !.pc = "tokenize",
                 !.options = options,
                 !.requested = NormalizedMaxTokens(options),
                 !.invoked = <<"tokenize">>,
                 !.awaitsCallback = awaits,
                 !.cancelledAtEntry = (cancellationFlags[models[e].id] = "true"),
                 !.usedBefore = models[e].lastUsed]

\* generate / streamGenerate up to the first await; at most `limit` calls
\* are in flight at a time
Enter(limit, kind, e, hasAdapter, options, awaits) ==
  /\ BagCardinality(calls) < limit
  /\ IF ~hasAdapter
     THEN /\ returned' = Refused(kind, e, "No adapter provided")
          /\ UNCHANGED <<cancellationFlags, calls>>
     ELSE IF ~ModelReady(e)
     THEN /\ returned' = Refused(kind, e, "Model not loaded properly")
          /\ UNCHANGED <<cancellationFlags, calls>>
     ELSE /\ cancellationFlags' = FlagsAtEntry(cancellationFlags, models[e].id)
          /\ calls' = calls (+) SetToBag({Entered(kind, e, options, awaits)})
          /\ returned' = NoCall
  /\ cancelReturned' = NoCancel
  /\ UNCHANGED <<now, models, loadedModels, loaderVars, tokenStream, modelVars, utilVars>>

\* generate(model, prompt, options, adapter), up to `await adapter.tokenize`
generate(limit, e, hasAdapter, options) ==
  Enter(limit, "generate", e, hasAdapter, options, FALSE)

\* streamGenerate(model, prompt, onToken, options, adapter), up to
\* `await adapter.tokenize`; awaits: whether the adapter awaits onToken
streamGenerate(limit, e, hasAdapter, options, awaits) ==
  Enter(limit, "stream", e, hasAdapter, options, awaits)

\* adapter.tokenize resolved with n tokens: build the context, truncate,
\* compute the budget and call runInference / runInferenceStreaming
TokenizeResolved(r, n) ==
  /\ r.pc = "tokenize"
  /\ LET size == EffectiveContextSize(r.model)
         ctx == TruncateContext(Iota(n), size)
         run == IF r.kind = "generate" THEN "runInference"
                ELSE "runInferenceStreaming"
     IN  calls' = Replace(r, [r EXCEPT
           !.pc = "infer",
           !.promptLength = n,
           !.context = ctx,
           !.contextSize = size,
           !.maxTokens = MaxNewTokens(r.requested, ctx, size),
           !.invoked = Append(r.invoked, run),
           !.invokedUnloaded = @ \/ ~ModelReady(r.model)])
  /\ UNCHANGED <<now, models, loadedModels, cancellationFlags, returned,
                 cancelReturned, loaderVars, tokenStream, modelVars, utilVars>>

\* the end of a call: its outcome, and `finally { model.updateLastUsed() }`
Settle(r, status, value, message, failed, notified) ==
  /\ returned' = [r EXCEPT
       !.pc = "done", !.status = status, !.value = value,
       !.message = message, !.failed = failed,
       !.notified = notified,
       !.cancelledAtSettle = IsCancelled(r),
       !.usedAfter = now]
  /\ calls' = calls (-) SetToBag({r})
  /\ models' = updateLastUsed(models, r.model)
  /\ cancelReturned' = NoCancel
  /\ UNCHANGED <<now, loadedModels, cancellationFlags, loaderVars, tokenStream, modelVars, utilVars>>

\* `if (cancellationFlags.get(model.id))` of the catch blocks
CatchIgnoresFlag(r) == FALSE
CatchSeesCancelled(r) == IsCancelled(r)

----------------------------------------------------------------------------
(* core/inference: generate *)

\* adapter.runInference resolved with k tokens; adapter.detokenize is called
InferenceReturned(r, k) ==
  /\ r.kind = "generate" /\ r.pc = "infer"
  /\ calls' = Replace(r, [r EXCEPT
       !.pc = "detokenize",
       !.output = Iota(k),
       !.invoked = Append(r.invoked, "detokenize"),
       !.invokedUnloaded = @ \/ ~ModelReady(r.model)])
  /\ UNCHANGED <<now, models, loadedModels, cancellationFlags, returned,
                 cancelReturned, loaderVars, tokenStream, modelVars, utilVars>>

\* adapter.detokenize resolved: return outputText
DetokenizeReturned(r) ==
  /\ r.kind = "generate" /\ r.pc = "detokenize"
  /\ Settle(r, "resolved", Detokenize(r.output), <<>>, "none", r.notified)

\* tokenize, runInference or detokenize threw or rejected: the catch block
GenerateCaught(r) ==
  /\ r.kind = "generate"
  /\ IF CatchSeesCancelled(r)
     THEN Settle(r, "resolved", EmptyText, <<>>, r.pc, r.notified)
     ELSE Settle(r, "rejected", <<>>,
                 <<"Text generation failed: ", AdapterMsg>>, r.pc, r.notified)

----------------------------------------------------------------------------
(* core/inference: streamGenerate *)

Terminal == <<EmptyText, TRUE>>

\* the adapter may go on (emit, return) only when it does not await the
\* token callback or no callback is outstanding
AdapterMayProceed(r) == r.awaitsCallback => r.pending = {}

\* the adapter calls onToken(tokenId): tokenCallback starts and suspends in
\* adapter.detokenizeToken
TokenEmitted(r) ==
  /\ r.kind = "stream" /\ r.pc = "infer"
  /\ r.emitted < MaxOut
  /\ AdapterMayProceed(r)
  /\ calls' = Replace(r, [r EXCEPT
       !.emitted = r.emitted + 1,
       !.pending = r.pending \cup {r.emitted + 1},
       !.invoked = Append(r.invoked, "detokenizeToken"),
       !.invokedUnloaded = @ \/ ~ModelReady(r.model)])
  /\ UNCHANGED <<now, models, loadedModels, cancellationFlags, returned,
                 cancelReturned, loaderVars, tokenStream, modelVars, utilVars>>

\* tokenCallback after detokenizeToken resolved for token t:
\* onToken(tokenText, false); what the caller's callback throws is caught
ForwardedToNobody(r, t) == [r EXCEPT !.pending = r.pending \ {t}]
Forwarded(r, t) ==
  [r EXCEPT !.pending = r.pending \ {t},
            !.notified = Append(r.notified, <<TokenText(t), FALSE>>)]

\* tokenCallback after detokenizeToken rejected for token t: logged only
Swallowed(r, t) ==
  [r EXCEPT !.pending = r.pending \ {t}, !.dropped = r.dropped \cup {t}]

\* a token callback of a call in flight completes
TokenDelivered(r, t, throws) ==
  /\ r.kind = "stream" /\ t \in r.pending
  /\ calls' = Replace(r, Forwarded(r, t))
  /\ UNCHANGED <<now, models, loadedModels, cancellationFlags, returned,
                 cancelReturned, loaderVars, tokenStream, modelVars, utilVars>>

TokenDropped(r, t) ==
  /\ r.kind = "stream" /\ t \in r.pending
  /\ calls' = Replace(r, Swallowed(r, t))
  /\ UNCHANGED <<now, models, loadedModels, cancellationFlags, returned,
                 cancelReturned, loaderVars, tokenStream, modelVars, utilVars>>

\* a token callback completes after streamGenerate has settled
LateTokenDelivered(t, throws) ==
  /\ returned.kind = "stream" /\ t \in returned.pending
  /\ returned' = Forwarded(returned, t)
  /\ UNCHANGED <<now, models, loadedModels, cancellationFlags, calls,
                 cancelReturned, loaderVars, tokenStream, modelVars, utilVars>>

LateTokenDropped(t) ==
  /\ returned.kind = "stream" /\ t \in returned.pending
  /\ returned' = Swallowed(returned, t)
  /\ UNCHANGED <<now, models, loadedModels, cancellationFlags, calls,
                 cancelReturned, loaderVars, tokenStream, modelVars, utilVars>>

\* the catch block of streamGenerate, entered with an error of message msg;
\* `throws` tells whether the caller's callback throws on onToken('', true)
StreamCatch(r, msg, failed, notified, throws) ==
  LET told == Append(notified, Terminal)
  IN  IF throws
      THEN Settle(r, "rejected", <<>>, <<CallbackMsg>>, failed, told)
      ELSE IF CatchSeesCancelled(r)
      THEN Settle(r, "resolved", <<>>, <<>>, failed, told)
      ELSE Settle(r, "rejected", <<>>,
                  <<"Streaming text generation failed: ", msg>>, failed, told)

\* runInferenceStreaming resolved: onToken('', true), which may throw into
\* the catch block
StreamReturned(r, throws, throwsAgain) ==
  /\ r.kind = "stream" /\ r.pc = "infer"
  /\ AdapterMayProceed(r)
  /\ LET told == Append(r.notified, Terminal)
     IN  IF throws
         THEN StreamCatch(r, CallbackMsg, "none", told, throwsAgain)
         ELSE Settle(r, "resolved", <<>>, <<>>, "none", told)

\* tokenize or runInferenceStreaming threw or rejected
StreamCaught(r, throws) ==
  /\ r.kind = "stream"
  /\ StreamCatch(r, AdapterMsg, r.pc, r.notified, throws)

----------------------------------------------------------------------------
(* core/inference: cancelGeneration *)

\* the arguments of cancelGeneration: <<"id", s>> is the string s (<<>> the
\* empty string), <<"model", e>> the model object e, <<"object">> an object
\* without id, <<"null">> null or undefined

\* typeof modelOrId === 'string' ? modelOrId : modelOrId.id   (<<>>: a falsy
\* id; reading .id of null throws)
CancelTarget(arg) ==
  IF arg[1] = "id" THEN arg[2]
  ELSE IF arg[1] = "model" THEN models[arg[2]].id
  ELSE <<>>

\* what a call in flight has seen of cancel(id)
Noted(r, id) ==
  IF CallModelId(r) = id THEN [r EXCEPT !.cancelledInFlight = TRUE] ELSE r

cancelGeneration(arg) ==
  IF arg[1] = "null"
  THEN /\ cancelReturned' = [arg |-> arg, outcome |-> "threw"]
       /\ UNCHANGED <<now, models, loadedModels, cancellationFlags, calls,
                      returned, loaderVars, tokenStream, modelVars, utilVars>>
  ELSE IF CancelTarget(arg) = <<>>
  THEN /\ cancelReturned' = [arg |-> arg, outcome |-> "false"]
       /\ UNCHANGED <<now, models, loadedModels, cancellationFlags, calls,
                      returned, loaderVars, tokenStream, modelVars, utilVars>>
  ELSE /\ cancellationFlags' =
            [cancellationFlags EXCEPT ![CancelTarget(arg)] = "true"]
       /\ calls' = LET Note(r) == Noted(r, CancelTarget(arg))
                   IN BagOfAll(Note, calls)
       /\ cancelReturned' = [arg |-> arg, outcome |-> "true"]
       /\ UNCHANGED <<now, models, loadedModels, returned, loaderVars, tokenStream, modelVars, utilVars>>

----------------------------------------------------------------------------
(* core/loader *)

\* new GGUFModel({id, path, metadata}): not loaded, no session
NewModel(id, path) ==
  [id |-> id, path |-> path, contextSize |-> DefaultContextSize,
   session |-> NullSession, tokenizer |-> NullTokenizer, isLoaded |-> FALSE,
   lastUsed |-> now, metadata |-> NoMetadata]

\* const modelId = customModelId || createModelId(path)
LoadModelId(path, customModelId) ==
  IF customModelId # <<>> THEN customModelId ELSE createModelId(path)

\* a load that takes part in the cache under the id derived from its path
Derived(l) == l.useCache /\ l.modelId = <<>>

LoadsInFlight == BagToSet(loads)

\* loadModel(path, {useCache, modelId}, adapter), up to the first await: the
\* adapter check, the cache look-up, and on a miss the construction of the
\* model and the invocation of adapter.initializeModel
loadModel(limit, path, useCache, customModelId, hasAdapter) ==
  LET id == LoadModelId(path, customModelId)
      l  == [NoLoad EXCEPT !.path = path, !.useCache = useCache,
                           !.modelId = customModelId, !.id = id,
                           !.prior = resident[id]]
  IN IF ~hasAdapter
     THEN /\ loadReturned' = [l EXCEPT !.pc = "done", !.status = "rejected",
                                       !.message = <<"No adapter provided">>]
          /\ answered' = NoAnswer
          /\ UNCHANGED <<now, models, loadedModels, inferenceVars, loads, resident, tokenStream, modelVars, utilVars>>
     ELSE IF useCache /\ MapHas(loadedModels, id)
     THEN LET cachedModel == MapGet(loadedModels, id)
          IN /\ models' = updateLastUsed(models, cachedModel)
             /\ loadReturned' = [l EXCEPT !.pc = "done", !.status = "resolved",
                                          !.model = cachedModel]
             /\ resident' = IF Derived(l)
                             THEN [resident EXCEPT ![id] = @ \cup {cachedModel}]
                             ELSE resident
             /\ answered' = NoAnswer
             /\ UNCHANGED <<now, loadedModels, inferenceVars, loads, tokenStream, modelVars, utilVars>>
     ELSE /\ BagCardinality(loads) < limit
          /\ Len(models) < MaxModels
          /\ models' = Append(models, NewModel(id, path))
          /\ loads' = loads (+) SetToBag({[l EXCEPT !.pc = "initializeModel",
                                                     !.model = Len(models) + 1,
                                                     !.initialized = TRUE]})
          /\ loadReturned' = NoLoad
          /\ UNCHANGED <<now, loadedModels, inferenceVars, resident, answered, tokenStream, modelVars, utilVars>>

\* adapter.initializeModel resolved: the model gets its session, is marked
\* loaded and, with useCache, is set in the map under its id
InitializeResolved(l) ==
  /\ l \in LoadsInFlight
  /\ models' = [models EXCEPT ![l.model].session = LiveSession,
                              ![l.model].tokenizer = LiveTokenizer,
                              ![l.model].isLoaded = TRUE]
  /\ loadedModels' = IF l.useCache THEN MapSet(loadedModels, l.id, l.model)
                      ELSE loadedModels
  /\ loads' = loads (-) SetToBag({l})
  /\ loadReturned' = [l EXCEPT !.pc = "done", !.status = "resolved"]
  /\ resident' = IF Derived(l) THEN [resident EXCEPT ![l.id] = @ \cup {l.model}]
                  ELSE resident
  /\ answered' = NoAnswer
  /\ UNCHANGED <<now, inferenceVars, tokenStream, modelVars, utilVars>>

\* adapter.initializeModel rejected: the catch wraps the message
InitializeRejectedRegisters(l) ==
  /\ l \in LoadsInFlight
  /\ loads' = loads (-) SetToBag({l})
  /\ loadedModels' = MapSet(loadedModels, l.id, l.model)
  /\ loadReturned' = [l EXCEPT !.pc = "done", !.status = "rejected",
                               !.message = <<"Failed to load GGUF model: ", AdapterMsg>>]
  /\ answered' = NoAnswer
  /\ UNCHANGED <<now, models, inferenceVars, resident, tokenStream, modelVars, utilVars>>
InitializeRejected(l) ==
  /\ l \in LoadsInFlight
  /\ loads' = loads (-) SetToBag({l})
  /\ loadReturned' = [l EXCEPT !.pc = "done", !.status = "rejected",
                               !.message = <<"Failed to load GGUF model: ", AdapterMsg>>]
  /\ answered' = NoAnswer
  /\ UNCHANGED <<now, models, loadedModels, inferenceVars, resident, tokenStream, modelVars, utilVars>>

\* unloadModel(modelId, adapter): false for an id that is not in the map;
\* adapter.freeModel may throw, and then nothing after it runs
unloadModel(id, freeThrows) ==
  LET call == [NoAnswer EXCEPT !.op = "unloadModel", !.id = id]
  IN IF ~MapHas(loadedModels, id)
     THEN /\ answered' = [call EXCEPT !.outcome = "false"]
          /\ UNCHANGED <<now, models, loadedModels, inferenceVars,
                         loads, loadReturned, resident, tokenStream, modelVars, utilVars>>
     ELSE IF freeThrows
     THEN /\ answered' = [call EXCEPT !.outcome = "threw", !.freed = 1,
                                      !.model = MapGet(loadedModels, id)]
          /\ UNCHANGED <<now, models, loadedModels, inferenceVars,
                         loads, loadReturned, resident, tokenStream, modelVars, utilVars>>
     ELSE /\ models' = unload(models, MapGet(loadedModels, id))
          /\ loadedModels' = MapDelete(loadedModels, id)
          /\ resident' = [resident EXCEPT ![id] = {}]
          /\ answered' = [call EXCEPT !.outcome = "true", !.freed = 1,
                                      !.model = MapGet(loadedModels, id)]
          /\ UNCHANGED <<now, inferenceVars, loads, loadReturned, tokenStream, modelVars, utilVars>>

\* getModel(modelId): the model, its lastUsed refreshed, or null
getModel(id) ==
  LET call == [NoAnswer EXCEPT !.op = "getModel", !.id = id,
                               !.outcome = "returned"]
  IN IF MapHas(loadedModels, id)
     THEN /\ models' = updateLastUsed(models, MapGet(loadedModels, id))
          /\ answered' = [call EXCEPT !.model = MapGet(loadedModels, id)]
          /\ UNCHANGED <<now, loadedModels, inferenceVars,
                         loads, loadReturned, resident, tokenStream, modelVars, utilVars>>
     ELSE /\ answered' = call
          /\ UNCHANGED <<now, models, loadedModels, inferenceVars,
                         loads, loadReturned, resident, tokenStream, modelVars, utilVars>>

\* Array.prototype.sort((a, b) => b.lastUsed - a.lastUsed): the positions of
\* infos in the order of the sorted array; the sort is stable
RECURSIVE SortedByLastUsed(_, _)
SortedByLastUsed(infos, n) ==
  IF n = 0 THEN <<>>
  ELSE LET sorted == SortedByLastUsed(infos, n - 1)
           before == {i \in DOMAIN sorted :
                        infos[sorted[i]].lastUsed >= infos[n].lastUsed}
           k == Cardinality(before)
       IN SubSeq(sorted, 1, k) \o <<n>> \o SubSeq(sorted, k + 1, Len(sorted))

\* listModels(): the info of every model of the map, sorted
listModels ==
  LET infos == [i \in DOMAIN loadedModels |->
                  getInfo(models[loadedModels[i][2]])]
      order == SortedByLastUsed(infos, Len(infos))
  IN /\ answered' = [NoAnswer EXCEPT
                       !.op = "listModels", !.outcome = "returned",
                       !.list = [i \in DOMAIN order |-> infos[order[i]]],
                       !.listed = [i \in DOMAIN order |->
                                     loadedModels[order[i]][2]]]
     /\ UNCHANGED <<now, models, loadedModels, inferenceVars,
                    loads, loadReturned, resident, tokenStream, modelVars, utilVars>>

\* the models the first k entries of the map hold
RECURSIVE UnloadFirst(_, _, _)
UnloadFirst(ms, m, k) ==
  IF k = 0 THEN ms ELSE unload(UnloadFirst(ms, m, k - 1), m[k][2])

\* clearModels(adapter): the entries are visited in insertion order;
\* adapter.freeModel throws at entry thrownAt (0: never), which leaves the
\* entries before it unloaded and the map as it was
clearModels(thrownAt) ==
  LET call == [NoAnswer EXCEPT !.op = "clearModels"]
  IN /\ thrownAt \in 0..Len(loadedModels)
     /\ IF thrownAt = 0
        THEN /\ models' = UnloadFirst(models, loadedModels, Len(loadedModels))
             /\ loadedModels' = <<>>
             /\ resident' = [i \in ModelIds |-> {}]
             /\ answered' = [call EXCEPT !.outcome = "returned",
                                         !.freed = Len(loadedModels)]
        ELSE /\ models' = UnloadFirst(models, loadedModels, thrownAt - 1)
             /\ answered' = [call EXCEPT !.outcome = "threw", !.freed = thrownAt]
             /\ UNCHANGED <<loadedModels, resident>>
     /\ UNCHANGED <<now, inferenceVars, loads, loadReturned, tokenStream, modelVars, utilVars>>

\* Date.now() advances
Tick ==
  /\ now < MaxTime
  /\ now' = now + 1
  /\ UNCHANGED <<models, loadedModels, inferenceVars, loaderVars, tokenStream, modelVars, utilVars>>

----------------------------------------------------------------------------
(* utils/streaming: TokenStream *)

\* The tokens written are numbered in the order of writing.  A consumer is
\* the number of its subscribe call; an onDone function is a number of
\* DoneFns, so that two subscribers can give the same function.  Beside the
\* fields of the object the record keeps what each subscriber has been
\* told: told[c] lists the onToken calls (<<token, false>>, or
\* <<NullToken, true>>), doneCalls[c] counts the calls of the onDone that c
\* registered; onDone[c] is the function c gave (NoDone: none), throws[c] and
\* doneThrows[c] tell whether its onToken and its onDone throw,
\* joinedAfter[c] how many tokens had been written at subscribe, joinedEnded[c]
\* whether the stream had ended then, left[c] whether c unsubscribed;
\* accepted is what the last write or writeMany returned, thrown whether the
\* last call of the stream ended by an exception.

NullToken == 0
NoDone == 0
DoneFns == 1..MaxSubscribers

\* new TokenStream({bufferSize, autoFlush})
TokenStream(bufferSize, autoFlush) ==
  [buffer |-> <<>>, bufferSize |-> bufferSize, autoFlush |-> autoFlush,
   isEnded |-> FALSE, consumers |-> <<>>, doneCallbacks |-> <<>>,
   written |-> 0, accepted |-> "none", thrown |-> FALSE,
   told |-> <<>>, doneCalls |-> <<>>, onDone |-> <<>>,
   throws |-> <<>>, doneThrows |-> <<>>,
   joinedAfter |-> <<>>, joinedEnded |-> <<>>, left |-> <<>>]

\* consumer.onToken(token, done): the call is made, and may throw
onToken(s, c, what) ==
  [s EXCEPT !.told[c] = Append(@, what), !.thrown = s.throws[c]]

\* callback(): the onDone registered by c is called, and may throw
onDoneCall(s, c) ==
  [s EXCEPT !.doneCalls[c] = @ + 1, !.thrown = s.doneThrows[c]]

\* try { ... } catch (error) { logger.error(...) }: what the callback threw
\* is logged and goes no further
CatchNothing(s) == s
CatchLogged(s) == [s EXCEPT !.thrown = FALSE]

\* onToken(token, done) of the consumers cs, each once, in order; an
\* exception in flight ends the loop
RECURSIVE Tell(_, _, _)
Tell(s, cs, what) ==
  IF cs = <<>> \/ s.thrown THEN s
  ELSE Tell(CatchLogged(onToken(s, Head(cs), what)), Tail(cs), what)

\* every token of the sequence to the consumers cs, token by token
RECURSIVE TellAll(_, _, _)
TellAll(s, cs, tokens) ==
  IF tokens = <<>> \/ s.thrown THEN s
  ELSE TellAll(Tell(s, cs, <<Head(tokens), FALSE>>), cs, Tail(tokens))

\* the callbacks cs (each the function and the subscriber that registered
\* it), each once
RECURSIVE CallDone(_, _)
CallDone(s, cs) ==
  IF cs = <<>> \/ s.thrown THEN s
  ELSE CallDone(CatchLogged(onDoneCall(s, Head(cs)[2])), Tail(cs))

\* while (this.buffer.length > 0): the first token is shifted out and told
\* to every consumer
RECURSIVE Drain(_)
Drain(s) ==
  IF s.buffer = <<>> \/ s.thrown THEN s
  ELSE Drain(Tell([s EXCEPT !.buffer = Tail(@)], s.consumers,
                  <<Head(s.buffer), FALSE>>))

\* TokenStream._notifyConsumers: nothing without consumers; else the buffer
\* is shifted out to all of them and, when the stream has ended, they are
\* told (null, true) and dropped
notifyConsumersKeepsBuffer(s) ==
  IF s.consumers = <<>> THEN s
  ELSE TellAll(s, s.consumers, s.buffer)
notifyConsumers(s) ==
  IF s.consumers = <<>> THEN s
  ELSE LET drained == Drain(s)
       IN IF drained.thrown \/ ~s.isEnded THEN drained
          ELSE LET ended == Tell(drained, s.consumers, <<NullToken, TRUE>>)
               IN IF ended.thrown THEN ended
                  ELSE [ended EXCEPT !.consumers = <<>>]

\* TokenStream.flush
flush(s) == [s EXCEPT !.buffer = <<>>]

\* the tail of write and writeMany: notify, then flush a full buffer, and
\* return true
WrittenNeverFlushes(s) ==
  LET notified == notifyConsumers(s)
  IN IF notified.thrown THEN [notified EXCEPT !.accepted = "threw"]
     ELSE [notified EXCEPT !.accepted = "true"]
Written(s) ==
  LET notified == notifyConsumers(s)
  IN IF notified.thrown THEN [notified EXCEPT !.accepted = "threw"]
     ELSE [(IF notified.autoFlush /\ Len(notified.buffer) >= notified.bufferSize
            THEN flush(notified) ELSE notified)
           EXCEPT !.accepted = "true"]

\* the n tokens written next
NextTokens(s, n) == [i \in 1..n |-> s.written + i]

\* TokenStream.writeMany(tokens), tokens of length n: false after end
writeManyAfterEnd(s, n) ==
  Written([s EXCEPT !.buffer = @ \o NextTokens(s, n),
                    !.written = @ + n,
                    !.thrown = FALSE])
writeManyTokens(s, n) ==
  IF s.isEnded THEN [s EXCEPT !.accepted = "false", !.thrown = FALSE]
  ELSE Written([s EXCEPT !.buffer = @ \o NextTokens(s, n),
                         !.written = @ + n,
                         !.thrown = FALSE])

writeMany(n) ==
  /\ tokenStream.written + n <= MaxWritten
  /\ tokenStream' = writeManyTokens(tokenStream, n)
  /\ UNCHANGED <<now, models, loadedModels, inferenceVars, loaderVars,
                 modelVars, utilVars>>

\* TokenStream.write(token)
write ==
  /\ tokenStream.written + 1 <= MaxWritten
  /\ tokenStream' = writeManyTokens(tokenStream, 1)
  /\ UNCHANGED <<now, models, loadedModels, inferenceVars, loaderVars,
                 modelVars, utilVars>>

\* TokenStream.end: once; consumers notified, then the done callbacks
\* called and dropped
endAgain(s) ==
  LET notified == notifyConsumers([s EXCEPT !.isEnded = TRUE,
                                            !.thrown = FALSE])
  IN IF notified.thrown THEN notified
     ELSE LET called == CallDone(notified, notified.doneCallbacks)
          IN IF called.thrown THEN called
             ELSE [called EXCEPT !.doneCallbacks = <<>>]
endStream(s) ==
  IF s.isEnded THEN [s EXCEPT !.thrown = FALSE]
  ELSE LET notified == notifyConsumers([s EXCEPT !.isEnded = TRUE,
                                                 !.thrown = FALSE])
       IN IF notified.thrown THEN notified
          ELSE LET called == CallDone(notified, notified.doneCallbacks)
               IN IF called.thrown THEN called
                  ELSE [called EXCEPT !.doneCallbacks = <<>>]

end ==
  /\ tokenStream' = endStream(tokenStream)
  /\ UNCHANGED <<now, models, loadedModels, inferenceVars, loaderVars,
                 modelVars, utilVars>>

\* TokenStream.subscribe(onToken, onDone): the consumer is added, told the
\* tokens the buffer holds, which stay there, and its onDone is called if the
\* stream has ended
subscribed(s, f, tokenThrows, doneThrows) ==
  LET c == Len(s.told) + 1
      joined == [s EXCEPT
        !.thrown = FALSE,
        !.consumers = Append(@, c),
        !.doneCallbacks = IF f # NoDone THEN Append(@, <<f, c>>) ELSE @,
        !.told = Append(@, <<>>),
        !.doneCalls = Append(@, 0),
        !.onDone = Append(@, f),
        !.throws = Append(@, tokenThrows),
        !.doneThrows = Append(@, doneThrows),
        !.joinedAfter = Append(@, s.written),
        !.joinedEnded = Append(@, s.isEnded),
        !.left = Append(@, FALSE)]
      replayed == TellAll(joined, <<c>>, s.buffer)
  IN IF replayed.thrown \/ ~(s.isEnded /\ f # NoDone) THEN replayed
     ELSE CatchLogged(onDoneCall(replayed, c))

subscribe(f, tokenThrows, doneThrows) ==
  /\ Len(tokenStream.told) < MaxSubscribers
  /\ tokenStream' = subscribed(tokenStream, f, tokenThrows, doneThrows)
  /\ UNCHANGED <<now, models, loadedModels, inferenceVars, loaderVars,
                 modelVars, utilVars>>

\* the function subscribe returned: the consumer is removed, and every done
\* callback that is the function it gave
unsubscribed(s, c) ==
  [s EXCEPT
     !.thrown = FALSE,
     !.consumers = SelectSeq(@, LAMBDA x : x # c),
     !.doneCallbacks = SelectSeq(@, LAMBDA cb : cb[1] # s.onDone[c]),
     !.left[c] = TRUE]

unsubscribe(c) ==
  /\ c \in DOMAIN tokenStream.told
  /\ ~tokenStream.left[c]
  /\ tokenStream' = unsubscribed(tokenStream, c)
  /\ UNCHANGED <<now, models, loadedModels, inferenceVars, loaderVars,
                 modelVars, utilVars>>

----------------------------------------------------------------------------
(* utils/streaming: a TokenStream whose consumers call write or end *)

\* The tokens written are numbered in the order of writing.  The consumers
\* of this stream register no onDone and do not throw.  A consumer's onToken
\* may call back into the stream: react[c] is what it does the first time it
\* is given a token ("write": stream.write of a new token, "end":
\* stream.end(), "none": nothing), armed[c] tells that it has not done so
\* yet; told[c] lists the onToken calls made to c.
Reactions == {"none", "write", "end"}

\* new TokenStream()
NewTokenStream ==
  [buffer |-> <<>>, bufferSize |-> DefaultBufferSize, autoFlush |-> TRUE,
   isEnded |-> FALSE, consumers |-> <<>>, written |-> 0,
   told |-> <<>>, react |-> <<>>, armed |-> <<>>]

RECURSIVE onTokenReentrant(_, _, _)
RECURSIVE tellEach(_, _, _)
RECURSIVE shiftOut(_)
RECURSIVE notifyConsumersReentrant(_)
RECURSIVE writeReentrant(_)
RECURSIVE endReentrant(_)

\* consumer.onToken(token, done): the call is made and the consumer may
\* call stream.write or stream.end before it returns
onTokenReentrant(s, c, what) ==
  LET heard == [s EXCEPT !.told[c] = Append(@, what)]
  IN IF what[2] \/ ~s.armed[c] \/ s.react[c] = "none" THEN heard
     ELSE IF s.react[c] = "write"
     THEN writeReentrant([heard EXCEPT !.armed[c] = FALSE])
     ELSE endReentrant([heard EXCEPT !.armed[c] = FALSE])

\* for (const consumer of consumers) consumer.onToken(token, done), over the
\* array that this.consumers was when the loop began
tellEach(s, cs, what) ==
  IF cs = <<>> THEN s
  ELSE tellEach(onTokenReentrant(s, Head(cs), what), Tail(cs), what)

\* while (this.buffer.length > 0) { token = this.buffer.shift(); for ... }
shiftOut(s) ==
  IF s.buffer = <<>> THEN s
  ELSE shiftOut(tellEach([s EXCEPT !.buffer = Tail(@)], s.consumers,
                         <<Head(s.buffer), FALSE>>))

\* TokenStream._notifyConsumers, with calls made from inside the callbacks;
\* this.isEnded and this.consumers are read again after the while loop
notifyConsumersReentrant(s) ==
  IF s.consumers = <<>> THEN s
  ELSE LET drained == shiftOut(s)
       IN IF ~drained.isEnded THEN drained
          ELSE [tellEach(drained, drained.consumers, <<NullToken, TRUE>>)
                  EXCEPT !.consumers = <<>>]

\* TokenStream.write(token) of the next token
writeReentrant(s) ==
  IF s.isEnded THEN s
  ELSE LET notified == notifyConsumersReentrant(
                         [s EXCEPT !.buffer = Append(@, s.written + 1),
                                   !.written = @ + 1])
       IN IF notified.autoFlush /\ Len(notified.buffer) >= notified.bufferSize
          THEN flush(notified) ELSE notified

\* TokenStream.end(); there are no done callbacks
endReentrant(s) ==
  IF s.isEnded THEN s
  ELSE notifyConsumersReentrant([s EXCEPT !.isEnded = TRUE])

\* for (const token of this.buffer) onToken(token, false) of subscribe: the
\* array iterator reads the length of the buffer again at every step, and
\* a write made by the callback shifts the buffer out in place
RECURSIVE replay(_, _, _)
replay(s, c, i) ==
  IF i > Len(s.buffer) THEN s
  ELSE replay(onTokenReentrant(s, c, <<s.buffer[i], FALSE>>), c, i + 1)

\* TokenStream.subscribe(onToken) with an onToken that reacts as given
subscribeReentrant(s, reaction) ==
  LET c == Len(s.told) + 1
  IN replay([s EXCEPT !.consumers = Append(@, c),
                      !.told = Append(@, <<>>),
                      !.react = Append(@, reaction),
                      !.armed = Append(@, TRUE)], c, 1)

\* what the actions of this stream leave alone
exceptLiveStream ==
  <<now, models, loadedModels, inferenceVars, loaderVars, tokenStream,
    modelVars, adapterRun, collector, memory, pool>>

liveWrite ==
  /\ liveStream.written < MaxLive
  /\ liveStream' = writeReentrant(liveStream)
  /\ UNCHANGED exceptLiveStream

liveEnd ==
  /\ liveStream' = endReentrant(liveStream)
  /\ UNCHANGED exceptLiveStream

liveSubscribe(reaction) ==
  /\ Len(liveStream.told) < MaxSubscribers
  /\ liveStream' = subscribeReentrant(liveStream, reaction)
  /\ UNCHANGED exceptLiveStream

----------------------------------------------------------------------------
(* adapters/node: runInference and runInferenceStreaming *)

\* The engine (model.session.generate) yields the tokens 1..engine; the
\* caller's isCancelled answers true from its poll number cancelAt on
\* (engine + 1 or more: never).  output is the array runInference resolved
\* with, onTokenCalls the tokens runInferenceStreaming gave to onToken.

\* no call
NoRun ==
  [called |-> FALSE, kind |-> "none", maxTokens |-> 0, engine |-> 0,
   cancelAt |-> 0, status |-> "none", output |-> <<>>, onTokenCalls |-> <<>>]

\* for (const token of completion) { if (isCancelled()) break;
\*   outputTokens.push(token); if (outputTokens.length >= nPredict) break; }
\* from the token i on, with the tokens taken so far
RECURSIVE TakeTokens(_, _, _, _, _)
TakeTokens(taken, i, engine, nPredict, cancelAt) ==
  IF i > engine \/ cancelAt <= i THEN taken
  ELSE LET pushed == Append(taken, i)
       IN IF Len(pushed) >= nPredict THEN pushed
          ELSE TakeTokens(pushed, i + 1, engine, nPredict, cancelAt)

\* the call, up to its outcome
Ran(kind, session, maxTokens, engine, cancelAt) ==
  LET call == [NoRun EXCEPT !.called = TRUE, !.kind = kind,
                            !.maxTokens = maxTokens, !.engine = engine,
                            !.cancelAt = cancelAt]
      taken == TakeTokens(<<>>, 1, engine, maxTokens, cancelAt)
  IN IF session = NullSession THEN [call EXCEPT !.status = "rejected"]
     ELSE IF kind = "runInference"
     THEN [call EXCEPT !.status = "resolved", !.output = taken]
     ELSE [call EXCEPT !.status = "resolved", !.onTokenCalls = taken]

\* what the actions of the adapter leave alone
exceptAdapterRun ==
  <<now, models, loadedModels, inferenceVars, loaderVars, tokenStream,
    modelVars, liveStream, collector, memory, pool>>

\* runInference(model, context, {maxTokens}, isCancelled)
runInference(session, maxTokens, engine, cancelAt) ==
  /\ adapterRun' = Ran("runInference", session, maxTokens, engine, cancelAt)
  /\ UNCHANGED exceptAdapterRun

\* runInferenceStreaming(model, context, onToken, {maxTokens}, isCancelled)
runInferenceStreaming(session, maxTokens, engine, cancelAt) ==
  /\ adapterRun' = Ran("runInferenceStreaming", session, maxTokens, engine,
                       cancelAt)
  /\ UNCHANGED exceptAdapterRun

----------------------------------------------------------------------------
(* utils/streaming: createTokenStream and collectStream *)

\* createTokenStream(tokens, {delay}) makes the stream tokenStream from the
\* array of the tokens 1..tokens; delayed: delay > 0, index and timer are
\* the index of processNextToken and whether its timeout is pending.
\* collectStream(stream, onProgress) subscribes the consumer `consumer`
\* (NoConsumer: not called); the array it collects is what the consumer was
\* given, its promise resolves when the consumer is given isDone or its
\* onDone is called; progress counts the onProgress calls.
NoConsumer == 0

NoCollector ==
  [created |-> FALSE, tokens |-> 0, delayed |-> FALSE, index |-> 0,
   timer |-> FALSE, consumer |-> NoConsumer, onProgress |-> FALSE]

\* what the actions of createTokenStream and collectStream leave alone
exceptCollector ==
  <<now, models, loadedModels, inferenceVars, loaderVars, modelVars,
    liveStream, adapterRun, memory, pool>>

\* createTokenStream(tokens, {delay})
createTokenStream(n, delayed) ==
  /\ ~collector.created
  /\ LET stream == TokenStream(DefaultBufferSize, TRUE)
     IN IF n = 0
        THEN /\ tokenStream' = endStream(stream)
             /\ collector' = [collector EXCEPT !.created = TRUE]
        ELSE IF delayed
        THEN /\ tokenStream' = stream
             /\ collector' = [collector EXCEPT !.created = TRUE, !.tokens = n,
                                               !.delayed = TRUE, !.timer = TRUE]
        ELSE /\ tokenStream' = endStream(writeManyTokens(stream, n))
             /\ collector' = [collector EXCEPT !.created = TRUE, !.tokens = n]
  /\ UNCHANGED exceptCollector

\* processNextToken, when its timeout fires
processNextToken ==
  /\ collector.timer
  /\ IF collector.index >= collector.tokens
     THEN /\ tokenStream' = endStream(tokenStream)
          /\ collector' = [collector EXCEPT !.timer = FALSE]
     ELSE LET wrote == writeManyTokens(tokenStream, 1)
          IN IF collector.index + 1 < collector.tokens
             THEN /\ tokenStream' = wrote
                  /\ collector' = [collector EXCEPT !.index = @ + 1]
             ELSE /\ tokenStream' = endStream(wrote)
                  /\ collector' = [collector EXCEPT !.index = @ + 1,
                                                    !.timer = FALSE]
  /\ UNCHANGED exceptCollector

\* collectStream(stream, onProgress): the executor of the promise subscribes
collectStream(onProgress) ==
  /\ collector.created
  /\ collector.consumer = NoConsumer
  /\ tokenStream' = subscribed(tokenStream, 1, FALSE, FALSE)
  /\ collector' = [collector EXCEPT !.consumer = Len(tokenStream.told) + 1,
                                    !.onProgress = onProgress]
  /\ UNCHANGED exceptCollector

\* the array `tokens` of collectStream: the tokens given with token !== null
Collected ==
  LET heard == SelectSeq(tokenStream.told[collector.consumer],
                         LAMBDA n : n[1] # NullToken)
  IN [i \in DOMAIN heard |-> heard[i][1]]

\* the onProgress calls made: one for every token collected
Progress == IF collector.onProgress THEN Len(Collected) ELSE 0

\* resolve(tokens) has been called: by onToken given isDone, or by onDone
Resolved ==
  \/ \E i \in DOMAIN tokenStream.told[collector.consumer] :
       tokenStream.told[collector.consumer][i][2]
  \/ tokenStream.doneCalls[collector.consumer] > 0

----------------------------------------------------------------------------
(* utils/memory: MemoryManager and withMemoryTracking *)

\* allocations is the Map of the records in insertion order, a record being
\* its id (the number n of `alloc_n`), size and type; answer is the call made
\* last with its argument and what it returned; tracked is the call of a
\* function wrapped by withMemoryTracking that is suspended in the function:
\* the id it allocated and the active bytes it read before.
NoAnswerYet == <<"none", 0, 0>>
NoTracked == [id |-> 0, before |-> 0]

\* new MemoryManager()
NewMemoryManager ==
  [allocations |-> <<>>, counter |-> 0,
   stats |-> [allocated |-> 0, freed |-> 0, active |-> 0, peak |-> 0,
              allocations |-> 0, frees |-> 0],
   answer |-> NoAnswerYet, tracked |-> NoTracked]

\* the types the callers give
MemoryTypes == {"tensor", "function"}

\* this.allocations.get(id)
Tracks(m, id) == \E i \in DOMAIN m.allocations : m.allocations[i].id = id
RecordOf(m, id) ==
  m.allocations[CHOOSE i \in DOMAIN m.allocations : m.allocations[i].id = id]

\* MemoryManager.allocate(size, {type})
Allocated(m, size, type) ==
  LET id == m.counter + 1
      active == m.stats.active + size
  IN [m EXCEPT
        !.counter = id,
        !.allocations = Append(@, [id |-> id, size |-> size, type |-> type]),
        !.stats = [@ EXCEPT !.allocated = @ + size,
                            !.active = active,
                            !.allocations = @ + 1,
                            !.peak = IF active > @ THEN active ELSE @],
        !.answer = <<"allocate", size, id>>]

\* MemoryManager.free(id)
Freed(m, id) ==
  IF ~Tracks(m, id) THEN [m EXCEPT !.answer = <<"free", id, FALSE>>]
  ELSE LET size == RecordOf(m, id).size
       IN [m EXCEPT
             !.stats = [@ EXCEPT !.freed = @ + size,
                                 !.active = @ - size,
                                 !.frees = @ + 1],
             !.allocations = SelectSeq(@, LAMBDA r : r.id # id),
             !.answer = <<"free", id, TRUE>>]

\* for (const id of ids) this.free(id), counting the calls that returned true
RECURSIVE FreedEach(_, _, _)
FreedEach(m, ids, count) ==
  IF ids = <<>> THEN [m EXCEPT !.answer[3] = count]
  ELSE LET freed == Freed(m, Head(ids))
       IN FreedEach(freed, Tail(ids),
                    IF freed.answer[3] THEN count + 1 ELSE count)

IdsOf(records) == [i \in DOMAIN records |-> records[i].id]

\* MemoryManager.freeAll(): the number of allocations there were
FreedAll(m) ==
  IF m.allocations = <<>> THEN [m EXCEPT !.answer = <<"freeAll", 0, 0>>]
  ELSE [FreedEach(m, IdsOf(m.allocations), 0)
          EXCEPT !.answer = <<"freeAll", 0, Len(m.allocations)>>]

\* MemoryManager.freeByType(type)
FreedByType(m, type) ==
  LET typeAllocations == SelectSeq(m.allocations, LAMBDA r : r.type = type)
      freed == FreedEach(m, IdsOf(typeAllocations), 0)
  IN [freed EXCEPT !.answer = <<"freeByType", type, freed.answer[3]>>]

\* MemoryManager.resetStats()
Reset(m) ==
  LET active == m.stats.allocated - m.stats.freed
  IN [m EXCEPT
        !.stats = [allocated |-> active, freed |-> 0, active |-> active,
                   peak |-> active, allocations |-> Len(m.allocations),
                   frees |-> 0],
        !.answer = <<"resetStats", 0, 0>>]

\* what the actions of the manager leave alone
exceptMemory ==
  <<now, models, loadedModels, inferenceVars, loaderVars, tokenStream,
    modelVars, liveStream, adapterRun, collector, pool>>

allocate(size, type) ==
  /\ memory.counter < MaxAllocations
  /\ memory' = Allocated(memory, size, type)
  /\ UNCHANGED exceptMemory

free(id) ==
  /\ memory' = Freed(memory, id)
  /\ UNCHANGED exceptMemory

freeAll ==
  /\ memory' = FreedAll(memory)
  /\ UNCHANGED exceptMemory

freeByType(type) ==
  /\ memory' = FreedByType(memory, type)
  /\ UNCHANGED exceptMemory

resetStats ==
  /\ memory' = Reset(memory)
  /\ UNCHANGED exceptMemory

\* a function wrapped by withMemoryTracking is called: the stats are read,
\* allocate(0) is made and the function is awaited
trackedCall ==
  /\ memory.tracked = NoTracked
  /\ memory.counter + 1 < MaxAllocations
  /\ LET started == Allocated(memory, 0, "function")
     IN memory' = [started EXCEPT
          !.tracked = [id |-> started.counter, before |-> memory.stats.active],
          !.answer = <<"call", 0, 0>>]
  /\ UNCHANGED exceptMemory

\* the function returned: free(id), then allocate(memoryUsed); or it threw:
\* free(id)
trackedReturn(threw) ==
  /\ memory.tracked # NoTracked
  /\ LET memoryUsed == memory.stats.active - memory.tracked.before
         freed == Freed(memory, memory.tracked.id)
         done == IF threw THEN freed ELSE Allocated(freed, memoryUsed, "function")
     IN memory' = [done EXCEPT !.tracked = NoTracked,
                               !.answer = <<"return", 0, 0>>]
  /\ UNCHANGED exceptMemory

----------------------------------------------------------------------------
(* utils/memory: createMemoryPool *)

\* An allocation object is told from the others by the number n of the
\* allocate call that made it; answer is the call made last with its
\* argument and its outcome (of allocate: "threw" or "returned").

\* no pool
NoPool ==
  [created |-> FALSE, totalSize |-> 0, allocations |-> <<>>, freeOffset |-> 0,
   made |-> 0, answer |-> NoAnswerYet]

\* the pool's allocate(size)
PoolAllocated(p, size) ==
  IF p.freeOffset + size > p.totalSize
  THEN [p EXCEPT !.answer = <<"allocate", size, "threw">>]
  ELSE [p EXCEPT
          !.freeOffset = @ + size,
          !.allocations = Append(@, [n |-> p.made + 1, start |-> p.freeOffset,
                                     size |-> size]),
          !.made = @ + 1,
          !.answer = <<"allocate", size, "returned">>]

\* the pool's free(allocation), of the allocation made by the call n
PoolFreed(p, n) ==
  IF \A i \in DOMAIN p.allocations : p.allocations[i].n # n
  THEN [p EXCEPT !.answer = <<"free", n, FALSE>>]
  ELSE [p EXCEPT !.allocations = SelectSeq(@, LAMBDA a : a.n # n),
                 !.answer = <<"free", n, TRUE>>]

\* the pool's reset()
PoolReset(p) ==
  [p EXCEPT !.allocations = <<>>, !.freeOffset = 0,
            !.answer = <<"reset", 0, 0>>]

\* the pool's getInfo()
poolGetInfo(p) ==
  [totalSize |-> p.totalSize, used |-> p.freeOffset,
   free |-> p.totalSize - p.freeOffset, allocations |-> Len(p.allocations)]

\* what the actions of the pool leave alone
exceptPool ==
  <<now, models, loadedModels, inferenceVars, loaderVars, tokenStream,
    modelVars, liveStream, adapterRun, collector, memory>>

createMemoryPool(totalSize) ==
  /\ ~pool.created
  /\ pool' = [NoPool EXCEPT !.created = TRUE, !.totalSize = totalSize]
  /\ UNCHANGED exceptPool

poolAllocate(size) ==
  /\ pool.created
  /\ pool.made < MaxPoolAllocations
  /\ pool' = PoolAllocated(pool, size)
  /\ UNCHANGED exceptPool

poolFree(n) ==
  /\ pool.created
  /\ pool' = PoolFreed(pool, n)
  /\ UNCHANGED exceptPool

poolReset ==
  /\ pool.created
  /\ pool' = PoolReset(pool)
  /\ UNCHANGED exceptPool

----------------------------------------------------------------------------
(* The callers of the utilities and of the Node adapter have called nothing *)


NoUtilCalls ==
  /\ liveStream = NewTokenStream
  /\ adapterRun = NoRun
  /\ collector = NoCollector
  /\ memory = NewMemoryManager
  /\ pool = NoPool

----------------------------------------------------------------------------
(* Concurrent generate / streamGenerate calls on two models, with          *)
(* cancellation; the second model is loaded, unloaded or without session   *)

\* a model as loadModel leaves it: registered, loaded; the session is
\* whatever the adapter returned
LoadedModel(id, path, size, session) ==
  [id |-> id, path |-> path, contextSize |-> size,
   session |-> session, tokenizer |-> LiveTokenizer, isLoaded |-> TRUE,
   lastUsed |-> 0, metadata |-> NoMetadata]

\* a model that generate must refuse: unloaded by unloadModel, or loaded by an
\* adapter that returned no session
NotReadyModels(id, path) ==
  { unload(<<LoadedModel(id, path, DefaultContextSize, LiveSession)>>, 1)[1],
    LoadedModel(id, path, DefaultContextSize, NullSession) }

\* no loadModel call has been made by the callers that are modelled
NoLoads ==
  /\ loads = EmptyBag
  /\ loadReturned = NoLoad
  /\ resident = [i \in ModelIds |-> {}]
  /\ answered = NoAnswer

\* arguments of cancelGeneration from which an id is resolved: the id
\* itself, or a model object
CancelIdArgs == {<<"id", i>> : i \in ModelIds}
CancelArgs == CancelIdArgs \cup {<<"model", e>> : e \in Entities}
\* arguments from which none is: the empty string, an object without id,
\* null or undefined
CancelNothingArgs == {<<"id", <<>>>>, <<"object">>, <<"null">>}

InitGen ==
  /\ now = 0
  /\ \E m \in NotReadyModels(IdB, PathB)
                 \cup {LoadedModel(IdB, PathB, DefaultContextSize, LiveSession)} :
       /\ models = <<LoadedModel(IdA, PathA, DefaultContextSize, LiveSession), m>>
       /\ loadedModels = IF m.isLoaded THEN <<<<IdA, 1>>, <<IdB, 2>>>>
                         ELSE <<<<IdA, 1>>>>
  /\ cancellationFlags = [i \in ModelIds |-> "unset"]
  /\ calls = EmptyBag
  /\ returned = NoCall
  /\ cancelReturned = NoCancel
  /\ NoLoads
  /\ NoModelCalls
  /\ NoUtilCalls
  /\ tokenStream = TokenStream(DefaultBufferSize, TRUE)

NextGen ==
  \/ \E e \in Entities \cup {NoEntity} : generate(MaxCalls, e, TRUE, <<>>)
  \/ \E e \in Entities \cup {NoEntity} :
       streamGenerate(MaxCalls, e, TRUE, <<>>, FALSE)
  \/ \E r \in InFlight : TokenizeResolved(r, 1)
  \/ \E r \in InFlight, k \in 0..1 : InferenceReturned(r, k)
  \/ \E r \in InFlight : DetokenizeReturned(r)
  \/ \E r \in InFlight : GenerateCaught(r)
  \/ \E r \in InFlight : StreamReturned(r, FALSE, FALSE)
  \/ \E r \in InFlight : StreamCaught(r, FALSE)
  \/ \E arg \in CancelIdArgs : cancelGeneration(arg)

SpecGen == InitGen /\ [][NextGen]_vars


----------------------------------------------------------------------------
(* One generate or streamGenerate call at a time, with the adapter's       *)
(* token-by-token streaming, callbacks that throw and cancellation         *)

NextStream ==
  \/ \E e \in Entities \cup {NoEntity}, a \in BOOLEAN :
       generate(1, e, a, <<>>)
  \/ \E e \in Entities \cup {NoEntity}, a \in BOOLEAN, w \in BOOLEAN :
       streamGenerate(1, e, a, <<>>, w)
  \/ \E r \in InFlight : TokenizeResolved(r, 1)
  \/ \E r \in InFlight, k \in 0..MaxOut : InferenceReturned(r, k)
  \/ \E r \in InFlight : DetokenizeReturned(r)
  \/ \E r \in InFlight : GenerateCaught(r)
  \/ \E r \in InFlight : TokenEmitted(r)
  \/ \E r \in InFlight, t \in 1..MaxOut, x \in BOOLEAN : TokenDelivered(r, t, x)
  \/ \E r \in InFlight, t \in 1..MaxOut : TokenDropped(r, t)
  \/ \E t \in 1..MaxOut, x \in BOOLEAN : LateTokenDelivered(t, x)
  \/ \E t \in 1..MaxOut : LateTokenDropped(t)
  \/ \E r \in InFlight, x \in BOOLEAN, y \in BOOLEAN : StreamReturned(r, x, y)
  \/ \E r \in InFlight, x \in BOOLEAN : StreamCaught(r, x)
  \/ \E arg \in CancelIdArgs : cancelGeneration(arg)

SpecStream == InitGen /\ [][NextStream]_vars

----------------------------------------------------------------------------
(* The context handed to the adapter and the token budget, over a window   *)
(* of context sizes around the headroom and of prompt lengths around the   *)
(* context size                                                            *)

\* options.contextSize of loadModel; 0: the option is absent from metadata
ContextSizes ==
  {0} \cup (1..TinyContext) \cup ((Headroom - CtxMargin)..(Headroom + CtxMargin))

\* lengths of the tokenize result
PromptLengths(size) ==
  {0} \cup {n \in (size - PromptMargin)..(size + PromptMargin) : n >= 0}

\* options of generate: maxTokens absent, 0 or 5
BudgetOptions == {<<>>, <<0>>, <<5>>}

InitBudget ==
  /\ now = 0
  /\ \E size \in ContextSizes :
       models = <<LoadedModel(IdA, PathA, size, LiveSession)>>
  /\ loadedModels = <<<<IdA, 1>>>>
  /\ cancellationFlags = [i \in ModelIds |-> "unset"]
  /\ calls = EmptyBag
  /\ returned = NoCall
  /\ cancelReturned = NoCancel
  /\ NoLoads
  /\ NoModelCalls
  /\ NoUtilCalls
  /\ tokenStream = TokenStream(DefaultBufferSize, TRUE)

NextBudget ==
  \/ \E o \in BudgetOptions : generate(1, 1, TRUE, o)
  \/ \E o \in BudgetOptions : streamGenerate(1, 1, TRUE, o, FALSE)
  \/ \E r \in InFlight :
       \E n \in PromptLengths(EffectiveContextSize(r.model)) : TokenizeResolved(r, n)

SpecBudget == InitBudget /\ [][NextBudget]_vars

----------------------------------------------------------------------------
(* The loader: concurrent loads of two paths, with and without the cache
   and an explicit id *)

InitLoad ==
  /\ now = 0
  /\ models = <<>>
  /\ loadedModels = <<>>
  /\ cancellationFlags = [i \in ModelIds |-> "unset"]
  /\ calls = EmptyBag
  /\ returned = NoCall
  /\ cancelReturned = NoCancel
  /\ NoLoads
  /\ NoModelCalls
  /\ NoUtilCalls
  /\ tokenStream = TokenStream(DefaultBufferSize, TRUE)

NextLoad ==
  \/ \E p \in Paths, c \in BOOLEAN, i \in {<<>>, IdB}, a \in BOOLEAN :
       loadModel(MaxLoads, p, c, i, a)
  \/ \E l \in LoadsInFlight : InitializeResolved(l)
  \/ \E l \in LoadsInFlight : InitializeRejected(l)

SpecLoad == InitLoad /\ [][NextLoad]_vars


----------------------------------------------------------------------------
(* The registry calls: loads of two paths, one at a time, with unloadModel,
   getModel and clearModels, an adapter whose freeModel may throw, and the
   clock *)

NextRegistry ==
  \/ \E p \in Paths, a \in BOOLEAN : loadModel(1, p, TRUE, <<>>, a)
  \/ \E l \in LoadsInFlight : InitializeResolved(l)
  \/ \E l \in LoadsInFlight : InitializeRejected(l)
  \/ \E i \in ModelIds, t \in BOOLEAN : unloadModel(i, t)
  \/ \E i \in ModelIds : getModel(i)
  \/ \E k \in 0..Len(loadedModels) : clearModels(k)
  \/ Tick

SpecRegistry == InitLoad /\ [][NextRegistry]_vars

----------------------------------------------------------------------------
(* Two registered models, loaded with or without a lastUsed entry in their
   metadata, with getModel, listModels, unloadModel and the clock *)

\* the metadata option of loadModel: without a key of getInfo, or with
\* lastUsed
MetadataOptions == {NoMetadata} \cup {<<<<"lastUsed", t>>>> : t \in 0..MaxTime}

InitList ==
  /\ now = 0
  /\ \E md1, md2 \in MetadataOptions :
       models =
         <<[LoadedModel(IdA, PathA, DefaultContextSize, LiveSession)
              EXCEPT !.metadata = md1],
           [LoadedModel(IdB, PathB, DefaultContextSize, LiveSession)
              EXCEPT !.metadata = md2]>>
  /\ loadedModels = <<<<IdA, 1>>, <<IdB, 2>>>>
  /\ cancellationFlags = [i \in ModelIds |-> "unset"]
  /\ calls = EmptyBag
  /\ returned = NoCall
  /\ cancelReturned = NoCancel
  /\ NoLoads
  /\ NoModelCalls
  /\ NoUtilCalls
  /\ tokenStream = TokenStream(DefaultBufferSize, TRUE)

NextList ==
  \/ listModels
  \/ \E i \in ModelIds : getModel(i)
  \/ \E i \in ModelIds : unloadModel(i, FALSE)
  \/ Tick

SpecList == InitList /\ [][NextList]_vars

----------------------------------------------------------------------------
(* createModelId given the paths of the models and every short path of
   slashes, dots and letters *)

\* '/', '.', 'a', 'b'
PathChars == {ChSlash, ChDot, 97, 98}
ShortPaths == UNION {[1..k -> PathChars] : k \in 0..MaxPathLen}

NextIds ==
  \E path \in Paths \cup ShortPaths : createModelIdCall(path)

SpecIds == InitLoad /\ [][NextIds]_vars

----------------------------------------------------------------------------
(* A ModelContext of a small context size, 0 included, or of the default
   one, given tokens chunk by chunk *)

InitContext ==
  /\ now = 0
  /\ models = <<>>
  /\ loadedModels = <<>>
  /\ cancellationFlags = [i \in ModelIds |-> "unset"]
  /\ calls = EmptyBag
  /\ returned = NoCall
  /\ cancelReturned = NoCancel
  /\ NoLoads
  /\ tokenStream = TokenStream(DefaultBufferSize, TRUE)
  /\ createdId = NoCreatedId
  /\ NoUtilCalls
  /\ \E contextSize \in 0..MaxContextSize \cup {DefaultContextSize} :
       modelContext = ModelContext(<<>>, contextSize)

NextContext ==
  \E tokens \in Chunks(MaxAdd) : addTokens(tokens)

SpecContext == InitContext /\ [][NextContext]_vars

----------------------------------------------------------------------------
(* One generate or streamGenerate call at a time on two models, with
   cancelGeneration given every kind of argument, and the clock *)

NextCancel ==
  \/ \E e \in Entities : generate(1, e, TRUE, <<>>)
  \/ \E e \in Entities : streamGenerate(1, e, TRUE, <<>>, FALSE)
  \/ \E r \in InFlight : TokenizeResolved(r, 1)
  \/ \E r \in InFlight, k \in 0..1 : InferenceReturned(r, k)
  \/ \E r \in InFlight : DetokenizeReturned(r)
  \/ \E r \in InFlight : GenerateCaught(r)
  \/ \E r \in InFlight : StreamReturned(r, FALSE, FALSE)
  \/ \E r \in InFlight : StreamCaught(r, FALSE)
  \/ \E arg \in CancelArgs \cup CancelNothingArgs : cancelGeneration(arg)
  \/ Tick

SpecCancel == InitGen /\ [][NextCancel]_vars

----------------------------------------------------------------------------
(* One generate or streamGenerate call at a time on two models, with
   unloadModel and clearModels called while it is suspended *)

NextUnload ==
  \/ \E e \in Entities : generate(1, e, TRUE, <<>>)
  \/ \E e \in Entities : streamGenerate(1, e, TRUE, <<>>, FALSE)
  \/ \E r \in InFlight : TokenizeResolved(r, 1)
  \/ \E r \in InFlight, k \in 0..1 : InferenceReturned(r, k)
  \/ \E r \in InFlight : DetokenizeReturned(r)
  \/ \E r \in InFlight : GenerateCaught(r)
  \/ \E r \in InFlight : TokenEmitted(r)
  \/ \E r \in InFlight, t \in 1..MaxOut : TokenDelivered(r, t, FALSE)
  \/ \E r \in InFlight : StreamReturned(r, FALSE, FALSE)
  \/ \E r \in InFlight : StreamCaught(r, FALSE)
  \/ \E i \in ModelIds : unloadModel(i, FALSE)
  \/ clearModels(0)

SpecUnload == InitGen /\ [][NextUnload]_vars

----------------------------------------------------------------------------
(* A token stream with the default or a tiny buffer, with or without
   autoFlush, written to, subscribed to and ended in every order *)

InitTokens ==
  /\ now = 0
  /\ models = <<>>
  /\ loadedModels = <<>>
  /\ cancellationFlags = [i \in ModelIds |-> "unset"]
  /\ calls = EmptyBag
  /\ returned = NoCall
  /\ cancelReturned = NoCancel
  /\ NoLoads
  /\ NoModelCalls
  /\ NoUtilCalls
  /\ \E size \in {DefaultBufferSize, TinyBuffer}, autoFlush \in BOOLEAN :
       tokenStream = TokenStream(size, autoFlush)

\* a subscriber gives an onDone function of its own, or none
NextStreamCalls ==
  \/ write
  \/ \E n \in 0..MaxBatch : writeMany(n)
  \/ end
  \/ \E d \in BOOLEAN :
       subscribe(IF d THEN Len(tokenStream.told) + 1 ELSE NoDone, FALSE, FALSE)
  \/ \E c \in 1..MaxSubscribers : unsubscribe(c)

SpecTokens == InitTokens /\ [][NextStreamCalls]_vars

----------------------------------------------------------------------------
(* A stream with the default options and subscribers whose onToken or
   onDone throws *)

InitOneStream ==
  /\ now = 0
  /\ models = <<>>
  /\ loadedModels = <<>>
  /\ cancellationFlags = [i \in ModelIds |-> "unset"]
  /\ calls = EmptyBag
  /\ returned = NoCall
  /\ cancelReturned = NoCancel
  /\ NoLoads
  /\ NoModelCalls
  /\ NoUtilCalls
  /\ tokenStream = TokenStream(DefaultBufferSize, TRUE)

\* a subscriber gives its own onDone or none; its onToken, its onDone, both
\* or none of them throw
NextThrowing ==
  \/ write
  \/ \E n \in 0..MaxBatch : writeMany(n)
  \/ end
  \/ \E tokenThrows \in BOOLEAN : subscribe(NoDone, tokenThrows, FALSE)
  \/ \E tokenThrows, doneThrows \in BOOLEAN :
       subscribe(Len(tokenStream.told) + 1, tokenThrows, doneThrows)

SpecThrowing == InitOneStream /\ [][NextThrowing]_vars

----------------------------------------------------------------------------
(* A stream with the default options and subscribers that may give the
   same onDone function *)

NextShared ==
  \/ write
  \/ end
  \/ \E f \in DoneFns \cup {NoDone} : subscribe(f, FALSE, FALSE)
  \/ \E c \in 1..MaxSubscribers : unsubscribe(c)

SpecShared == InitOneStream /\ [][NextShared]_vars

----------------------------------------------------------------------------
(* A stream with the default options whose subscribers may call write or
   end from inside onToken *)

InitUtils ==
  /\ now = 0
  /\ models = <<>>
  /\ loadedModels = <<>>
  /\ cancellationFlags = [i \in ModelIds |-> "unset"]
  /\ calls = EmptyBag
  /\ returned = NoCall
  /\ cancelReturned = NoCancel
  /\ NoLoads
  /\ NoModelCalls
  /\ NoUtilCalls
  /\ tokenStream = TokenStream(DefaultBufferSize, TRUE)

NextReentrant ==
  \/ liveWrite
  \/ liveEnd
  \/ \E reaction \in Reactions : liveSubscribe(reaction)

SpecReentrant == InitUtils /\ [][NextReentrant]_vars

----------------------------------------------------------------------------
(* The Node adapter's inference loops, over token limits around 0, engines
   that yield up to MaxEngine tokens and cancellation at any poll *)

PredictLimits == -1..MaxPredict

NextAdapter ==
  \/ \E session \in {NullSession, LiveSession}, maxTokens \in PredictLimits,
        engine \in 0..MaxEngine, cancelAt \in 1..(MaxEngine + 1) :
       runInference(session, maxTokens, engine, cancelAt)
  \/ \E session \in {NullSession, LiveSession}, maxTokens \in PredictLimits,
        engine \in 0..MaxEngine, cancelAt \in 1..(MaxEngine + 1) :
       runInferenceStreaming(session, maxTokens, engine, cancelAt)

SpecAdapter == InitUtils /\ [][NextAdapter]_vars

----------------------------------------------------------------------------
(* createTokenStream of a short array, or of one as long as or longer than the
   default buffer, with or without delay, and collectStream on the stream *)

StreamedLengths == 0..MaxStreamed \cup {DefaultBufferSize, DefaultBufferSize + 1}

NextCollect ==
  \/ \E n \in StreamedLengths : createTokenStream(n, FALSE)
  \/ \E n \in 0..MaxStreamed : createTokenStream(n, TRUE)
  \/ processNextToken
  \/ \E onProgress \in BOOLEAN : collectStream(onProgress)

SpecCollect == InitUtils /\ [][NextCollect]_vars

----------------------------------------------------------------------------
(* A MemoryManager given sizes around 0, with a function wrapped by
   withMemoryTracking that allocates and frees through the manager *)

MemorySizes == -1..MaxSize

NextMemory ==
  \/ \E size \in MemorySizes, type \in MemoryTypes : allocate(size, type)
  \/ \E id \in 1..MaxAllocations : free(id)
  \/ freeAll
  \/ \E type \in MemoryTypes : freeByType(type)
  \/ resetStats
  \/ trackedCall
  \/ \E threw \in BOOLEAN : trackedReturn(threw)

SpecMemory == InitUtils /\ [][NextMemory]_vars

----------------------------------------------------------------------------
(* A pool of up to MaxPool bytes, with allocations of up to the size of the
   largest pool, frees of every allocation made, and resets *)

NextPool ==
  \/ \E totalSize \in 1..MaxPool : createMemoryPool(totalSize)
  \/ \E size \in 0..MaxPool : poolAllocate(size)
  \/ \E n \in 1..MaxPoolAllocations : poolFree(n)
  \/ poolReset

SpecPool == InitUtils /\ [][NextPool]_vars

----------------------------------------------------------------------------
(* Properties: loading and the cache *)

\* C1: a load of a path with the cache on and no explicit id, made after an
\* earlier such load of the path completed and with no unload or clear of the
\* id since, returns the model the earlier load returned, without invoking
\* adapter.initializeModel.
C1_SecondLoadReturnsSameModel ==
  (loadReturned.status = "resolved" /\ Derived(loadReturned))
    => /\ \A e \in loadReturned.prior : loadReturned.model = e
       /\ loadReturned.prior # {} => ~loadReturned.initialized

----------------------------------------------------------------------------
(* Properties: generate and cancellation *)

\* the settled generate call
GenerateSettled == returned.kind = "generate" /\ returned.pc = "done"
\* an adapter call of the settled call rejected
AdapterFailed == returned.failed # "none"
\* the text of a token sequence, written out
IsTextOf(value, tokens) ==
  /\ Len(value) = Len(tokens)
  /\ \A i \in DOMAIN value : value[i] = <<"text", tokens[i]>>
\* the message embeds the adapter's
EmbedsAdapterMessage(message) == \E i \in DOMAIN message : message[i] = AdapterMsg

\* C2 as stated: a generate call during which cancel(id) was called resolves
\* to the empty string.
C2_CancelledResolvesEmpty ==
  (GenerateSettled /\ returned.cancelledInFlight)
    => returned.status = "resolved" /\ returned.value = EmptyText

\* C2 as the code has it: a generate call during which cancel(id) was called
\* resolves to the text of the tokens runInference returned when no adapter
\* call rejects; when one rejects it resolves to the empty string if the flag
\* is still true, and rejects with the wrapped adapter message if a later
\* call on the id has reset the flag.
C2_CancelledOutcome ==
  (GenerateSettled /\ returned.cancelledInFlight)
    => /\ ~AdapterFailed
            => returned.status = "resolved"
               /\ IsTextOf(returned.value, returned.output)
       /\ (AdapterFailed /\ returned.cancelledAtSettle)
            => returned.status = "resolved" /\ returned.value = EmptyText
       /\ (AdapterFailed /\ ~returned.cancelledAtSettle)
            => returned.status = "rejected"
               /\ returned.message = <<"Text generation failed: ", AdapterMsg>>

\* C2: a cancelled call has resolved to a non-empty text
C2_CancelledWithText ==
  /\ GenerateSettled /\ returned.cancelledInFlight
  /\ returned.status = "resolved" /\ returned.value # EmptyText

\* C2: a cancelled call whose adapter call rejected has resolved to ""
C2_CancelledCaught ==
  /\ GenerateSettled /\ returned.cancelledInFlight
  /\ AdapterFailed /\ returned.status = "resolved" /\ returned.value = EmptyText

\* C3 as stated: cancel(id) immediately before generate: an adapter failure
\* that follows makes the call resolve to the empty string.
C3_CancelBeforeResolvesEmpty ==
  (GenerateSettled /\ returned.cancelledAtEntry /\ AdapterFailed)
    => returned.status = "resolved" /\ returned.value = EmptyText

\* C3 as the code has it: entering generate resets the flag of the id, so a
\* cancel before the call has no effect on it: unless cancel is called again
\* during the call, the call sees no cancellation and an adapter failure makes
\* it reject with the wrapped adapter message.
C3_CancelBeforeHasNoEffect ==
  /\ \A r \in InFlight :
       (r.cancelledAtEntry /\ ~r.cancelledInFlight)
         => cancellationFlags[models[r.model].id] = "false"
  /\ (GenerateSettled /\ returned.cancelledAtEntry
        /\ ~returned.cancelledInFlight /\ AdapterFailed)
       => returned.status = "rejected"
          /\ returned.message = <<"Text generation failed: ", AdapterMsg>>

\* C3: a call entered with the flag set, not cancelled since, has rejected
C3_CancelBeforeRejected ==
  /\ GenerateSettled /\ returned.cancelledAtEntry
  /\ ~returned.cancelledInFlight /\ AdapterFailed
  /\ returned.status = "rejected"

\* C4: once cancel(id) has been called during a call on the id, the
\* isCancelled of that call answers true for the rest of the call.
C4_CancelledStaysCancelled ==
  \A r \in InFlight :
    r.cancelledInFlight => cancellationFlags[models[r.model].id] = "true"

\* C5: an adapter call fails while the flag is false: generate and
\* streamGenerate reject with a message that embeds the adapter's.
C5_FailureEmbedsAdapterMessage ==
  (/\ returned.kind \in {"generate", "stream"} /\ returned.pc = "done"
   /\ AdapterFailed /\ ~returned.cancelledAtSettle)
    => returned.status = "rejected" /\ EmbedsAdapterMessage(returned.message)

\* the model object is null, not loaded or without session
NotReady(e) ==
  \/ e = NoEntity
  \/ ~models[e].isLoaded
  \/ models[e].session = NullSession
\* the calls that this step lets past the checks
Admitted == {r \in BagToSet(calls') : CopiesIn(r, calls') > CopiesIn(r, calls)}
\* this step refuses a call
Refuses == returned' # returned /\ returned'.pc = "done" /\ returned'.invoked = <<>>

\* C6: generate and streamGenerate with a model that is null, not loaded or
\* without session reject with "Model not loaded properly", invoke no
\* capability of the adapter and leave the cancellation flags as they are.
C6_NotReadyRefused ==
  [][/\ \A r \in Admitted : ~NotReady(r.model)
     /\ (Refuses /\ NotReady(returned'.model))
          => /\ returned'.status = "rejected"
             /\ cancellationFlags' = cancellationFlags
             /\ calls' = calls]_vars

\* C6: a call on a model without session was refused, and the flag that a
\* cancel had set for its id is still set
C6_RefusedWithFlagSet ==
  /\ returned.pc = "done" /\ returned.invoked = <<>>
  /\ returned.message = <<"Model not loaded properly">>
  /\ returned.model # NoEntity
  /\ models[returned.model].isLoaded
  /\ models[returned.model].session = NullSession
  /\ cancellationFlags[models[returned.model].id] = "true"

----------------------------------------------------------------------------
(* Properties: the context and the token budget *)

\* the calls that have reached the inference step
AtInference == {r \in InFlight : r.pc = "infer"}
\* metadata.contextSize of the model of a call, or 2048 if absent
ContextSizeOf(r) ==
  IF models[r.model].contextSize = 0 THEN 2048 ELSE models[r.model].contextSize
\* the context is the tokens of the prompt from position first on, in order
\* (the tokens of a prompt are numbered 1..promptLength)
IsSuffixFrom(context, promptLength, first) ==
  /\ Len(context) = promptLength - first + 1
  /\ \A i \in DOMAIN context : context[i] = first + i - 1

Inferences(r) ==
  Cardinality({i \in DOMAIN r.invoked :
                 r.invoked[i] \in {"runInference", "runInferenceStreaming"}})

\* C8: the maxTokens handed to the adapter is the smaller of the requested
\* maxTokens (100 if not given) and the remaining space less 10; it is <= 0
\* when the remaining space is below 10, and the adapter is invoked once all
\* the same.
C8_MaxNewTokens ==
  \A r \in AtInference :
    LET requested == IF r.options = <<>> THEN 100 ELSE r.options[1]
        remainingSpace == ContextSizeOf(r) - Len(r.context)
    IN /\ r.maxTokens = IF requested <= remainingSpace - 10
                        THEN requested ELSE remainingSpace - 10
       /\ remainingSpace < 10 => r.maxTokens <= 0
       /\ Inferences(r) = 1

\* C8: the adapter has been invoked with a budget that is not positive
C8_NoBudgetStillInvoked ==
  \E r \in AtInference :
    /\ ContextSizeOf(r) - Len(r.context) < 10
    /\ r.maxTokens <= 0
    /\ Inferences(r) = 1

----------------------------------------------------------------------------
(* Properties: the notifications of streamGenerate *)

\* the settled streamGenerate call that had passed its checks
StreamSettled ==
  returned.kind = "stream" /\ returned.pc = "done" /\ returned.invoked # <<>>
\* positions of the terminal notifications the callback has seen
Terminals(notified) == {i \in DOMAIN notified : notified[i][2]}

\* C9: the callback of a streamGenerate call that passed its checks is
\* invoked with ("", true) exactly once, whatever the outcome.
C9_OneTerminal ==
  StreamSettled => Cardinality(Terminals(returned.notified)) = 1

\* C10: no (text, false) notification reaches the callback after the
\* terminal ("", true) one.
C10_NothingAfterTerminal ==
  returned.kind = "stream"
    => \A i \in Terminals(returned.notified) :
         \A j \in DOMAIN returned.notified : j > i => returned.notified[j][2]

\* the streamGenerate calls, in flight or settled
StreamCalls ==
  {r \in InFlight : r.kind = "stream"}
    \cup (IF returned.kind = "stream" THEN {returned} ELSE {})
\* how often the callback has been told the text of token t
TimesForwarded(r, t) ==
  Cardinality({i \in DOMAIN r.notified : r.notified[i] = <<<<"text", t>>, FALSE>>})

\* C11: a failure of adapter.detokenizeToken for a token does not abort the
\* stream: it does not make streamGenerate reject, every other emitted token
\* whose detokenization has succeeded is forwarded as (text, false), and the
\* terminal ("", true) notification is still delivered.  (A stream in which
\* a token was dropped rejects only for a failure of tokenize or
\* runInferenceStreaming or for what the caller's callback threw.)
C11_TokenFailureSwallowed ==
  /\ \A r \in StreamCalls :
       \A t \in 1..r.emitted :
         /\ t \in r.dropped => TimesForwarded(r, t) = 0 /\ t \notin r.pending
         /\ (t \notin r.dropped /\ t \notin r.pending) => TimesForwarded(r, t) = 1
  /\ (StreamSettled /\ returned.dropped # {})
       => /\ Terminals(returned.notified) # {}
          /\ returned.status = "rejected"
               => \/ returned.failed # "none"
                  \/ \E i \in DOMAIN returned.message :
                       returned.message[i] = CallbackMsg

\* C11: a stream in which the detokenization of one token failed and that
\* of another succeeded has resolved
C11_OneDroppedOneForwarded ==
  /\ StreamSettled /\ returned.status = "resolved"
  /\ returned.dropped # {}
  /\ \E t \in 1..returned.emitted : TimesForwarded(returned, t) = 1
  /\ Terminals(returned.notified) # {}

----------------------------------------------------------------------------
(* Properties: failures of the loader *)

\* this step is a loadModel call rejecting because initializeModel failed
LoadFails ==
  /\ loadReturned' # loadReturned
  /\ loadReturned'.status = "rejected"
  /\ loadReturned'.initialized
\* the models the registry holds
Registered(m) == {m[i][2] : i \in DOMAIN m}

\* C12 as stated: when adapter.initializeModel fails, the id of the load is
\* not registered afterwards.
C12_FailedIdNotRegistered ==
  [][LoadFails => ~MapHas(loadedModels', loadReturned'.id)]_vars

\* C12 as the code has it: when adapter.initializeModel fails, load rejects
\* with the wrapped adapter message and the registry is unchanged: the model
\* of the failed load is not registered, every entry (one under the id of
\* the load included, if another load had registered it) and every
\* registered model are as before.
C12_FailedLoadLeavesRegistry ==
  [][LoadFails =>
       /\ loadReturned'.message = <<"Failed to load GGUF model: ", AdapterMsg>>
       /\ loadedModels' = loadedModels
       /\ loadReturned'.model \notin Registered(loadedModels')
       /\ \A e \in Registered(loadedModels) : models'[e] = models[e]]_vars

\* C12: a load has failed while the registry holds a model
C12_FailedBesideRegistered ==
  /\ loadReturned.status = "rejected" /\ loadReturned.initialized
  /\ loadedModels # <<>>
  /\ loadReturned.model \notin Registered(loadedModels)

\* the model is as GGUFModel.unload leaves it
Unloaded(m) == m.session = NullSession /\ ~m.isLoaded
\* this step is a call of the registry operation op
Answers(op) == answered' # answered /\ answered'.op = op

\* C13: unloadModel of a registered id does not throw even when
\* adapter.freeModel throws: the model ends unloaded, the id is removed from
\* the registry and the call returns true.
C13_UnloadSwallowsFreeFailure ==
  (answered.op = "unloadModel" /\ answered.model # NoEntity)
    => /\ answered.outcome = "true"
       /\ Unloaded(models[answered.model])
       /\ ~MapHas(loadedModels, answered.id)

\* C14: after clearModels the registry is empty and every model that was
\* registered is unloaded, even if adapter.freeModel throws for one of them.
C14_ClearEmptiesRegistry ==
  [][Answers("clearModels") =>
       /\ answered'.outcome = "returned"
       /\ loadedModels' = <<>>
       /\ \A e \in Registered(loadedModels) : Unloaded(models'[e])]_vars

\* C15: unloadModel of an id that is not registered returns false, does not
\* throw, invokes no adapter capability and leaves the registry and the
\* models unchanged; after an unloadModel that returned true the id is not
\* registered, only a loadModel call of the id that resolves registers it
\* again, and getModel of an id that is not registered returns null.
C15_UnloadUnknownAndGetAfterUnload ==
  [][/\ (Answers("unloadModel") /\ ~MapHas(loadedModels, answered'.id))
          => /\ answered'.outcome = "false"
             /\ answered'.freed = 0
             /\ loadedModels' = loadedModels
             /\ models' = models
     /\ (Answers("unloadModel") /\ answered'.outcome = "true")
          => ~MapHas(loadedModels', answered'.id)
     /\ \A i \in ModelIds :
          (MapHas(loadedModels', i) /\ ~MapHas(loadedModels, i))
            => /\ loadReturned' # loadReturned
               /\ loadReturned'.status = "resolved"
               /\ loadReturned'.id = i
     /\ (Answers("getModel") /\ ~MapHas(loadedModels, answered'.id))
          => answered'.model = NoEntity]_vars

\* C15: getModel has returned null for the id of a model that had been
\* loaded and was unloaded
C15_GetAfterUnloadIsNull ==
  /\ answered.op = "getModel" /\ answered.model = NoEntity
  /\ \E e \in DOMAIN models :
       /\ models[e].id = answered.id
       /\ models[e].tokenizer = LiveTokenizer
       /\ Unloaded(models[e])

----------------------------------------------------------------------------
(* Properties: cancelGeneration, independence of the ids, lastUsed *)

\* this step is a cancelGeneration call
Cancels == cancelReturned' # cancelReturned /\ cancelReturned'.outcome # "none"
\* an id can be resolved from the argument: a non-empty string, or a model
\* object (every model has a non-empty id)
Resolvable(arg) == (arg[1] = "id" /\ arg[2] # <<>>) \/ arg[1] = "model"
\* the id resolved from such an argument
ResolvedId(arg) == IF arg[1] = "id" THEN arg[2] ELSE models[arg[2]].id

\* C16: cancelGeneration never throws: given a non-empty string or a model
\* with an id it sets the flag of that id to true and returns true; given
\* null, undefined, the empty string or an object without id it returns false
\* and leaves every flag unchanged.
C16_CancelNeverThrows ==
  [][Cancels =>
       LET arg == cancelReturned'.arg
       IN /\ cancelReturned'.outcome # "threw"
          /\ Resolvable(arg)
               => /\ cancelReturned'.outcome = "true"
                  /\ cancellationFlags'[ResolvedId(arg)] = "true"
          /\ ~Resolvable(arg)
               => /\ cancelReturned'.outcome = "false"
                  /\ cancellationFlags' = cancellationFlags]_vars

\* the id of a call
IdOf(r) == models[r.model].id
\* this step is a generate, streamGenerate or cancelGeneration call on id a,
\* or a later step of such a call
ActsOn(a) ==
  \/ Cancels /\ Resolvable(cancelReturned'.arg)
             /\ ResolvedId(cancelReturned'.arg) = a
  \/ \E r \in BagToSet(calls') \ BagToSet(calls) : IdOf(r) = a
  \/ /\ returned' # returned /\ returned'.pc = "done"
     /\ returned'.model # NoEntity /\ IdOf(returned') = a
\* this step leaves what belongs to id b as it is: its flag, which is the
\* value the isCancelled of its calls reads, its calls in flight and its
\* models
LeavesAlone(b) ==
  /\ cancellationFlags'[b] = cancellationFlags[b]
  /\ \A r \in InFlight : IdOf(r) = b => CopiesIn(r, calls') = CopiesIn(r, calls)
  /\ \A e \in DOMAIN models : models[e].id = b => models'[e] = models[e]

\* C17: a generate, streamGenerate or cancelGeneration call on id a never
\* changes the cancellation flag of another id b, what the isCancelled of a
\* call in flight on b answers, or the lastUsed, session or isLoaded of the
\* model of b.
C17_IdsIndependent ==
  [][\A a \in ModelIds : \A b \in ModelIds \ {a} : ActsOn(a) => LeavesAlone(b)]_vars

\* C17: calls are in flight on two ids, one cancelled and the other not
C17_OneOfTwoCancelled ==
  \E r \in InFlight : \E q \in InFlight :
    /\ IdOf(r) # IdOf(q)
    /\ r.cancelledInFlight /\ cancellationFlags[IdOf(r)] = "true"
    /\ ~q.cancelledInFlight /\ cancellationFlags[IdOf(q)] = "false"

\* this step settles a call that had passed its checks
Settles ==
  /\ BagCardinality(calls') < BagCardinality(calls)
  /\ returned' # returned /\ returned'.pc = "done"
\* this step is another step of a call: it is made, or it moves on
Proceeds ==
  /\ calls' # calls
  /\ BagCardinality(calls') >= BagCardinality(calls)

\* C18: the lastUsed of the model of a generate or streamGenerate call that
\* passed its checks is refreshed when the call settles, whether it resolves
\* with output, resolves because cancelled or rejects, and at no other step
\* of the call; its value after the call is not smaller than before.
C18_LastUsedRefreshedAtSettle ==
  [][/\ Settles
          => /\ models'[returned'.model].lastUsed = now
             /\ models'[returned'.model].lastUsed
                  >= models[returned'.model].lastUsed
             /\ returned'.usedAfter >= returned'.usedBefore
     /\ Proceeds
          => \A e \in DOMAIN models : models'[e].lastUsed = models[e].lastUsed]_vars

\* C18: a call that resolved because it was cancelled has refreshed the
\* lastUsed of its model to a later reading of the clock
C18_CancelledCallRefreshed ==
  /\ returned.pc = "done" /\ returned.invoked # <<>>
  /\ returned.status = "resolved" /\ returned.failed # "none"
  /\ returned.cancelledAtSettle
  /\ returned.usedAfter > returned.usedBefore
  /\ models[returned.model].lastUsed = returned.usedAfter

----------------------------------------------------------------------------
(* Properties: TokenStream *)

\* the subscribers of the stream
Subscribers == DOMAIN tokenStream.told
\* the notifications of the tokens 1..n, in order
TokensInOrder(n) == [i \in 1..n |-> <<i, FALSE>>]

\* C19: a subscriber added before any write, and not unsubscribed, is told
\* exactly the tokens written, each once, in the order of writing, each as
\* (token, false), and once the stream has ended exactly one (null, true)
\* after them and nothing more.
C19_EarlySubscriberToldAll ==
  \A c \in Subscribers :
    (/\ tokenStream.joinedAfter[c] = 0
     /\ ~tokenStream.joinedEnded[c]
     /\ ~tokenStream.left[c])
      => tokenStream.told[c] =
           TokensInOrder(tokenStream.written)
             \o (IF tokenStream.isEnded THEN <<<<NullToken, TRUE>>>> ELSE <<>>)

\* C19: a stream of several tokens has ended with such a subscriber
C19_EndedWithEarlySubscriber ==
  /\ tokenStream.isEnded /\ tokenStream.written >= 2
  /\ \E c \in Subscribers :
       /\ tokenStream.joinedAfter[c] = 0 /\ ~tokenStream.left[c]
       /\ Len(tokenStream.told[c]) = tokenStream.written + 1

\* C20: a subscriber added after end() is told no token written before
\* end(); its onDone, if it gave one, is called once, at once.
C20_LateSubscriberToldNoToken ==
  \A c \in Subscribers :
    tokenStream.joinedEnded[c]
      => /\ \A i \in DOMAIN tokenStream.told[c] : tokenStream.told[c][i][2]
         /\ tokenStream.onDone[c] # NoDone => tokenStream.doneCalls[c] = 1

\* the tokens c has been told, without the terminal notification
TokensTold(c) ==
  SelectSeq(tokenStream.told[c], LAMBDA t : ~t[2])

\* C21: no subscriber is told the same written token twice: the tokens
\* replayed from the buffer at subscription are not told again by a later
\* write, writeMany or end.
C21_TokenToldAtMostOnce ==
  \A c \in Subscribers :
    \A i, j \in DOMAIN TokensTold(c) :
      i # j => TokensTold(c)[i][1] # TokensTold(c)[j][1]

\* a call of write or writeMany
Writes == write \/ \E n \in 0..MaxBatch : writeMany(n)

\* C22: once the stream has ended it stays ended, and a write or writeMany
\* returns false, leaves the buffer as it is and tells no subscriber
\* anything.
C22_EndedRefusesWrites ==
  [][tokenStream.isEnded
       => /\ tokenStream'.isEnded
          /\ Writes => /\ tokenStream'.accepted = "false"
                       /\ tokenStream'.buffer = tokenStream.buffer
                       /\ tokenStream'.told = tokenStream.told
                       /\ tokenStream'.doneCalls = tokenStream.doneCalls]_vars

\* C22: a write has been refused by an ended stream that has a buffered
\* token and a subscriber
C22_WriteRefused ==
  /\ tokenStream.isEnded /\ tokenStream.accepted = "false"
  /\ tokenStream.buffer # <<>>
  /\ \E c \in Subscribers : ~tokenStream.left[c]

\* the consumers subscribed now, and those with a done callback registered
Subscribed == {tokenStream.consumers[i] : i \in DOMAIN tokenStream.consumers}
DoneRegistered ==
  {tokenStream.doneCallbacks[i][2] : i \in DOMAIN tokenStream.doneCallbacks}
\* the number of (null, true) notifications in what c was told
TerminalsTold(told, c) == Len(SelectSeq(told[c], LAMBDA t : t[2]))

\* C23: the first end() tells every subscriber subscribed then (null, true)
\* once, and calls every registered onDone once; neither had happened
\* before, neither happens again, and an end() of an ended stream changes
\* nothing.
C23_EndNotifiesOnce ==
  [][/\ (end /\ ~tokenStream.isEnded)
          => /\ \A c \in Subscribed :
                  /\ TerminalsTold(tokenStream.told, c) = 0
                  /\ TerminalsTold(tokenStream'.told, c) = 1
                  /\ tokenStream'.told[c][Len(tokenStream'.told[c])][2]
             /\ \A c \in DoneRegistered :
                  /\ tokenStream.doneCalls[c] = 0
                  /\ tokenStream'.doneCalls[c] = 1
     /\ (end /\ tokenStream.isEnded) => tokenStream' = tokenStream
     /\ tokenStream.isEnded
          => \A c \in Subscribers :
               ~tokenStream.joinedEnded[c]
                 => /\ TerminalsTold(tokenStream'.told, c)
                        = TerminalsTold(tokenStream.told, c)
                    /\ tokenStream'.doneCalls[c] = tokenStream.doneCalls[c]]_vars

\* C23: a stream has ended with two subscribers, both told (null, true), one
\* of them with an onDone that was called
C23_TwoNotifiedAtEnd ==
  /\ tokenStream.isEnded
  /\ \E c, d \in Subscribers :
       /\ c # d
       /\ ~tokenStream.joinedEnded[c] /\ ~tokenStream.joinedEnded[d]
       /\ TerminalsTold(tokenStream.told, c) = 1
       /\ TerminalsTold(tokenStream.told, d) = 1
       /\ tokenStream.doneCalls[c] = 1

\* C24: with autoFlush the buffer holds fewer than bufferSize tokens after
\* every write and writeMany, which return true while the stream has not
\* ended: a buffer that reached bufferSize without a consumer to take the
\* tokens has been emptied, and nobody was told them.
C24_AutoFlushBoundsBuffer ==
  [][(Writes /\ tokenStream.autoFlush)
       => /\ Len(tokenStream'.buffer) < tokenStream.bufferSize
          /\ ~tokenStream.isEnded
               => /\ tokenStream'.accepted = "true"
                  /\ (/\ tokenStream.consumers = <<>>
                      /\ Len(tokenStream.buffer) + tokenStream'.written
                           - tokenStream.written >= tokenStream.bufferSize)
                       => /\ tokenStream'.buffer = <<>>
                          /\ tokenStream'.told = tokenStream.told]_vars

\* C24: a stream with autoFlush and no subscriber has been written as many
\* tokens as its buffer takes: they were discarded, the write returned true
C24_FullBufferDiscarded ==
  /\ tokenStream.autoFlush
  /\ tokenStream.told = <<>>
  /\ tokenStream.written >= tokenStream.bufferSize
  /\ tokenStream.buffer = <<>>
  /\ tokenStream.accepted = "true"

\* the stream had no callback of any subscriber thrown
Harmless(s) ==
  [s EXCEPT !.throws = [c \in DOMAIN @ |-> FALSE],
            !.doneThrows = [c \in DOMAIN @ |-> FALSE]]

\* C25: no call of the stream ends by the exception of a callback, and
\* apart from which callbacks throw the stream is after every call what it
\* would be had no callback thrown: every subscriber has been told the same
\* tokens and terminal notification, every onDone called as often.
C25_ThrowingCallbackIsolated ==
  [][/\ ~tokenStream'.thrown
     /\ write => Harmless(tokenStream')
                   = writeManyTokens(Harmless(tokenStream), 1)
     /\ \A n \in 0..MaxBatch :
          writeMany(n) => Harmless(tokenStream')
                            = writeManyTokens(Harmless(tokenStream), n)
     /\ end => Harmless(tokenStream') = endStream(Harmless(tokenStream))
     /\ \A f \in DoneFns \cup {NoDone}, tokenThrows, doneThrows \in BOOLEAN :
          subscribe(f, tokenThrows, doneThrows)
            => Harmless(tokenStream')
                 = subscribed(Harmless(tokenStream), f, FALSE, FALSE)]_vars

\* C25: the first subscriber's onToken and onDone throw and were called; the
\* second one, whose callbacks come after them, was told the token and the
\* terminal notification and had its onDone called
C25_SecondToldAfterThrow ==
  /\ 2 \in Subscribers
  /\ tokenStream.throws[1] /\ tokenStream.doneThrows[1]
  /\ ~tokenStream.throws[2] /\ ~tokenStream.doneThrows[2]
  /\ tokenStream.joinedAfter[2] = 0 /\ tokenStream.written >= 1
  /\ TerminalsTold(tokenStream.told, 1) = 1
  /\ tokenStream.doneCalls[1] = 1
  /\ tokenStream.told[2] = TokensInOrder(tokenStream.written)
                             \o <<<<NullToken, TRUE>>>>
  /\ tokenStream.doneCalls[2] = 1

\* C26: the function subscribe returned to c removes c from the consumers
\* and the done callback c registered, and nothing else: every other
\* subscriber stays subscribed and keeps its done callback registered, also
\* when it gave the same onDone function as c.
C26_UnsubscribeRemovesOwn ==
  [][\A c \in 1..MaxSubscribers :
       unsubscribe(c) => /\ Subscribed' = Subscribed \ {c}
                         /\ DoneRegistered' = DoneRegistered \ {c}]_vars

----------------------------------------------------------------------------
(* Properties: the registry *)

\* C27: loadModel calls, started and completed in any order, leave every
\* registered id registered and bound to the entity it was bound to.
C27_RegisteredStaysBound ==
  [][\A i \in MapKeys(loadedModels) :
       /\ MapHas(loadedModels', i)
       /\ MapGet(loadedModels', i) = MapGet(loadedModels, i)]_vars

\* C28: listModels returns one record for every registered model and no
\* other, each with the id of its model, the record of a model used later
\* before that of a model used earlier, and changes neither the registry
\* nor any model.
C28_ListMostRecentFirst ==
  [][Answers("listModels")
       => /\ models' = models /\ loadedModels' = loadedModels
          /\ Len(answered'.list) = Len(loadedModels)
          /\ {answered'.listed[i] : i \in DOMAIN answered'.listed}
               = Registered(loadedModels)
          /\ \A i \in DOMAIN answered'.listed :
               answered'.list[i].id = models[answered'.listed[i]].id
          /\ \A i, j \in DOMAIN answered'.listed :
               i < j => models[answered'.listed[i]].lastUsed
                          >= models[answered'.listed[j]].lastUsed]_vars

----------------------------------------------------------------------------
(* Properties: core/model *)

\* a file name without its extension: what precedes its last dot, the whole
\* name when it has no dot or only a leading one
StripExtension(name) ==
  LET dot == LastIndexOf(name, ChDot, Len(name))
  IN IF dot <= 1 THEN name ELSE SubSeq(name, 1, dot - 1)
\* 0-9, a-f
LowerHexDigits == 48..57 \cup 97..102
\* the parts of an id before and after its last '-'
IdName(id) == SubSeq(id, 1, LastIndexOf(id, ChDash, Len(id)) - 1)
IdSuffix(id) == SubSeq(id, LastIndexOf(id, ChDash, Len(id)) + 1, Len(id))

\* C29: createModelId(p) is the basename of p without its extension, then
\* '-', then exactly 8 lowercase hexadecimal characters.
C29_NameDashEightHex ==
  createdId.called
    => /\ IdName(createdId.id) = StripExtension(LastSegment(createdId.path))
       /\ Len(IdSuffix(createdId.id)) = 8
       /\ \A i \in DOMAIN IdSuffix(createdId.id) :
            IdSuffix(createdId.id)[i] \in LowerHexDigits

\* C30: after every addTokens call of a ModelContext of context size N >= 0
\* the tokens are at most N, and are the last min(N, L) of the L tokens that
\* the tokens held before followed by the tokens added make.
C30_KeepsNewestWithinSize ==
  [][\A added \in Chunks(MaxAdd) :
       addTokens(added)
         => LET all == modelContext.tokens \o added
                N == modelContext.contextSize
                L == Len(all)
            IN /\ Len(modelContext'.tokens) <= N
               /\ modelContext'.tokens = SubSeq(all, L - Min(N, L) + 1, L)]_vars

----------------------------------------------------------------------------
(* Properties: interleavings *)

\* the loads in flight that take part in the cache
CachingLoads == {l \in LoadsInFlight : l.useCache}

\* C31: of the loads with the cache on that resolve to one id, at most one
\* has adapter.initializeModel invoked and pending, and those that completed
\* under the id derived from the path have all returned one entity.
C31_OneInitializePerId ==
  /\ \A l1, l2 \in CachingLoads : l1.id = l2.id => l1 = l2
  /\ \A i \in ModelIds : Cardinality(resident[i]) <= 1

\* C32: no call in flight or settled has invoked adapter.runInference,
\* runInferenceStreaming, detokenize or detokenizeToken with a model that
\* was not loaded or had no session at the invocation.
C32_AdapterSeesLoadedModel ==
  /\ \A r \in InFlight : ~r.invokedUnloaded
  /\ ~returned.invokedUnloaded


\* the token ids of the (text, false) notifications of a call, in the order
\* in which the caller's callback received them
TokensNotified(r) ==
  LET told == SelectSeq(r.notified, LAMBDA n : n # Terminal)
  IN [i \in DOMAIN told |-> told[i][1][2]]

InEmissionOrder(r) ==
  \A i, j \in DOMAIN TokensNotified(r) :
    i < j => TokensNotified(r)[i] < TokensNotified(r)[j]

\* C33: in streamGenerate the (text, false) notifications reach the caller's
\* callback in the order in which the adapter emitted the token ids, whether
\* the adapter awaits onToken or not and in whatever order the pending
\* detokenizeToken calls complete.
C33_NotifiedInEmissionOrder ==
  /\ \A r \in InFlight : r.kind = "stream" => InEmissionOrder(r)
  /\ returned.kind = "stream" => InEmissionOrder(returned)

----------------------------------------------------------------------------
(* Properties: calls made from inside the callbacks of a TokenStream *)

\* no (token, false) after (null, true) in the calls made to one consumer
DoneIsLast(calls_) ==
  \A i, j \in DOMAIN calls_ : (i < j /\ calls_[i][2]) => calls_[j][2]

\* the tokens of the calls (token, false), in the order of the calls
TokensHeard(calls_) ==
  LET tok == SelectSeq(calls_, LAMBDA n : ~n[2])
  IN [i \in DOMAIN tok |-> tok[i][1]]

\* where the token is heard first
FirstHeard(ts, x) == CHOOSE i \in DOMAIN ts : ts[i] = x /\ \A j \in 1..(i - 1) : ts[j] # x

\* two consumers hear the tokens that both hear in the same order
SameOrder(a, b) ==
  LET both == {a[i] : i \in DOMAIN a} \cap {b[i] : i \in DOMAIN b}
  IN \A x, y \in both :
       FirstHeard(a, x) < FirstHeard(a, y) <=> FirstHeard(b, x) < FirstHeard(b, y)

\* C34: whatever write and end calls are made on a TokenStream, from its
\* users or from inside a consumer callback during a delivery loop, no
\* subscriber is given (token, false) after it was given (null, true), and
\* all subscribers are given the tokens in the same order.
C34_DoneLastAndSameOrder ==
  /\ \A c \in DOMAIN liveStream.told : DoneIsLast(liveStream.told[c])
  /\ \A c, d \in DOMAIN liveStream.told :
       SameOrder(TokensHeard(liveStream.told[c]), TokensHeard(liveStream.told[d]))

----------------------------------------------------------------------------
(* Properties: the Node adapter *)

\* C35: a runInference call of the Node adapter resolves with at most
\* max(0, maxTokens) tokens, and a runInferenceStreaming call gives at most
\* max(0, maxTokens) tokens to onToken, whatever the engine yields.
C35_AtMostMaxTokens ==
  adapterRun.status = "resolved" =>
    /\ Len(adapterRun.output) <= Max(0, adapterRun.maxTokens)
    /\ Len(adapterRun.onTokenCalls) <= Max(0, adapterRun.maxTokens)

----------------------------------------------------------------------------
(* Properties: createTokenStream and collectStream *)

\* C36: collectStream on the stream that createTokenStream made of an array
\* with delay 0 resolves, and resolves to the array: every token once, in
\* order, whatever the length of the array.
C36_CollectsWhatWasStreamed ==
  (collector.created /\ ~collector.delayed /\ collector.consumer # NoConsumer) =>
    /\ Resolved
    /\ Collected = Iota(collector.tokens)

----------------------------------------------------------------------------
(* Properties: utils/memory *)

RECURSIVE SumOfSizes(_)
SumOfSizes(records) ==
  IF records = <<>> THEN 0 ELSE Head(records).size + SumOfSizes(Tail(records))

StatsAgree ==
  /\ memory.stats.active = memory.stats.allocated - memory.stats.freed
  /\ memory.stats.active = SumOfSizes(memory.allocations)
  /\ memory.stats.peak >= memory.stats.active

\* a free of an id that is not tracked returns false and changes nothing
FreeOfUnknown ==
  (memory' # memory /\ memory'.answer[1] = "free"
     /\ ~Tracks(memory, memory'.answer[2])) =>
    /\ memory'.answer[3] = FALSE
    /\ [memory' EXCEPT !.answer = memory.answer] = memory

\* C37: in every state of a MemoryManager reached by allocate, free, freeAll,
\* freeByType and resetStats calls with integer sizes, stats.active equals
\* stats.allocated - stats.freed and the sum of the sizes of the tracked
\* records, and stats.peak >= stats.active; a free of an id that is not
\* tracked returns false and changes nothing.
C37_StatsAgreeWithRecords == []StatsAgree /\ [][FreeOfUnknown]_vars

\* the bytes of the allocations of the pool that have not been freed
LiveBytes(p) == SumOfSizes(p.allocations)

\* the size of the allocation that the call n made
SizeMade(p, n) ==
  p.allocations[CHOOSE i \in DOMAIN p.allocations : p.allocations[i].n = n].size

\* a free that returns true makes getInfo().free grow by the size freed
FreeGivesBack ==
  (pool'.answer[1] = "free" /\ pool'.answer[3] = TRUE /\ pool' # pool) =>
    poolGetInfo(pool').free = poolGetInfo(pool).free + SizeMade(pool, pool'.answer[2])

\* allocate throws only when the live allocations and the request exceed
\* the pool, and then changes nothing
ThrowsOnlyWhenFull ==
  (pool'.answer[1] = "allocate" /\ pool'.answer[3] = "threw" /\ pool' # pool) =>
    /\ LiveBytes(pool) + pool'.answer[2] > pool.totalSize
    /\ [pool' EXCEPT !.answer = pool.answer] = pool

\* C38: in a pool made by createMemoryPool, a free that returns true makes
\* getInfo().free grow by the size of the allocation, so that allocate does
\* not throw while the live allocations and the request fit in totalSize;
\* an allocate that throws leaves the pool as it was.
C38_FreedSpaceIsReusable == [][FreeGivesBack /\ ThrowsOnlyWhenFull]_vars
====
